---- MODULE Spec2Model ----
(***************************************************************************)
(* The plugin execution gateway (services/pagi-external-gateway): the      *)
(* in-memory tool registry and its Redis store, the dispatcher of          *)
(* /execute over the four backends, the table of loaded native libraries   *)
(* behind its mutex, and the plugin auto-discovery watcher.                *)
(*                                                                         *)
(* Strings the code takes apart (locators) are sequences of one-character  *)
(* strings; an Option<T> is a sequence of length 0 (None) or 1 (Some).     *)
(***************************************************************************)
EXTENDS Naturals, Sequences, FiniteSets, TLC

VARIABLES
    registry,     \* GatewayState.registry: scope -> (tool name -> ToolSchema)
    redis,        \* the Redis store: key -> (hash field -> serialized ToolSchema)
    req,          \* per HTTP connection: the handler task's position and locals
    loaded_libs,  \* LOADED_LIBS: the canonical paths that hold a Library handle
    lib_mutex,    \* the Mutex around LOADED_LIBS: its owner and its poison flag
    fs,           \* the plugin directory: plugin folder -> manifest.toml (or none)
    chan,         \* filesystem events waiting in the mpsc channel of the watcher
    watcher,      \* the watcher task's position and locals
    env,          \* the environment variables auto_discover.rs reads
    children,     \* the child processes spawned for Binary plugins
    main,         \* the position of main(): loading, spawning, binding, serving
    engine        \* pagi-executive-engine: the interact handler's position and locals

vars == <<registry, redis, req, loaded_libs, lib_mutex, fs, chan, watcher, env,
          children, main, engine>>

----------------------------------------------------------------------------
(* Bounds of the model *)

\* concurrent HTTP connections
MaxCallers == 2
\* worker threads of the tokio runtime (one per core by default)
NumWorkers == 2
\* filesystem events the model lets wait in the channel
MaxEvents == 1
\* child processes of Binary plugins alive at a time
MaxChildren == 2

Callers == 1..MaxCallers

----------------------------------------------------------------------------
(* Option, maps *)

None == << >>
Some(x) == <<x>>

EmptyMap == [x \in {} |-> x]

Put(m, k, v) == [x \in (DOMAIN m) \cup {k} |-> IF x = k THEN v ELSE m[x]]

GetOr(m, k, default) == IF k \in DOMAIN m THEN m[k] ELSE default

----------------------------------------------------------------------------
(* Scopes *)

\* Uuid::nil(), the global scope
Nil == "00000000"

global_twin_id == Nil

Twins == {"t1", "t2"}

Uuids == {Nil} \cup Twins

----------------------------------------------------------------------------
(* Locators: str::strip_prefix on the plugin_url *)

SHAREDLIB_SCHEME == <<"s","h","a","r","e","d","l","i","b",":","/","/">>
WASM_SCHEME == <<"w","a","s","m",":","/","/">>
WASM_COMPONENT_SCHEME == <<"w","a","s","m","-","c","o","m","p","o","n","e","n","t",":","/","/">>
COMPONENT_SCHEME == <<"c","o","m","p","o","n","e","n","t",":","/","/">>
HTTP_SCHEME == <<"h","t","t","p",":","/","/">>

StartsWith(s, p) == Len(s) >= Len(p) /\ SubSeq(s, 1, Len(p)) = p

\* Option<&str>: the rest of s behind the prefix p
strip_prefix(s, p) ==
    IF StartsWith(s, p) THEN Some(SubSeq(s, Len(p) + 1, Len(s))) ELSE None

----------------------------------------------------------------------------
(* ToolSchema and its serde_json form *)

ToolSchema(n, url, ep) ==
    [name |-> n, description |-> "d", plugin_url |-> url, endpoint |-> ep,
     parameters |-> "{}"]

\* serde_json::to_string(tool): the fields in declaration order
to_string(tool) ==
    <<tool.name, tool.description, tool.plugin_url, tool.endpoint, tool.parameters>>

\* serde_json::from_str::<ToolSchema>: Some(tool), or None for a value that is
\* not a serialized ToolSchema
from_str(json) ==
    IF Len(json) = 5
    THEN Some([name |-> json[1], description |-> json[2], plugin_url |-> json[3],
               endpoint |-> json[4], parameters |-> json[5]])
    ELSE None

----------------------------------------------------------------------------
(* redis_registry.rs *)

GLOBAL_TOOLS_KEY == <<"pagi:tools:global">>
TWIN_TOOLS_PREFIX == "pagi:tools:twin:"

twin_key(twin_id) == <<TWIN_TOOLS_PREFIX, twin_id>>

\* The fields of hash `key` that hold a parsable ToolSchema, parsed
ParsedHash(store, key) ==
    LET h == GetOr(store, key, EmptyMap)
    IN  [f \in {k \in DOMAIN h : from_str(h[k]) # None} |-> from_str(h[f])[1]]

\* load_all_tools: the registry rebuilt from the store. A scope gets an entry
\* only when one of its fields parsed (registry.entry(..).or_default() runs
\* inside the `if let Ok(tool)`).
load_all_tools(store) ==
    LET scopes == {u \in Uuids :
                      IF u = Nil
                      THEN DOMAIN ParsedHash(store, GLOBAL_TOOLS_KEY) # {}
                      ELSE DOMAIN ParsedHash(store, twin_key(u)) # {}}
    IN  [u \in scopes |->
            IF u = Nil THEN ParsedHash(store, GLOBAL_TOOLS_KEY)
            ELSE ParsedHash(store, twin_key(u))]

\* HGET key field, as an Option
hget(store, key, field) ==
    IF key \in DOMAIN store /\ field \in DOMAIN store[key]
    THEN Some(store[key][field]) ELSE None

\* persist_tool's key: None => the global hash, Some(uuid) => the twin's hash
PersistKey(persist_twin) ==
    IF persist_twin = None THEN GLOBAL_TOOLS_KEY ELSE twin_key(persist_twin[1])

\* persist_tool after the connection is there: HSET key tool.name json
persist_tool(store, persist_twin, tool) ==
    LET key == PersistKey(persist_twin)
    IN  Put(store, key, Put(GetOr(store, key, EmptyMap), tool.name, to_string(tool)))

----------------------------------------------------------------------------
(* main.rs: the registry *)

\* an insert that files a definition under a second key when its name is
\* already registered at the scope
RegistryInsert_Duplicating(reg, twin_uuid, tool) ==
    LET m == GetOr(reg, twin_uuid, EmptyMap)
    IN  IF tool.name \in DOMAIN m
        THEN Put(reg, twin_uuid, Put(m, "duplicate", tool))
        ELSE Put(reg, twin_uuid, Put(m, tool.name, tool))

\* an upsert at a twin that writes the global scope as well
RegistryInsert_AlsoGlobal(reg, twin_uuid, tool) ==
    LET own == Put(reg, twin_uuid, Put(GetOr(reg, twin_uuid, EmptyMap), tool.name, tool))
    IN  Put(own, Nil, Put(GetOr(own, Nil, EmptyMap), tool.name, tool))

\* upsert_tool, the block under the write lock
RegistryInsert(reg, twin_uuid, tool) ==
    Put(reg, twin_uuid, Put(GetOr(reg, twin_uuid, EmptyMap), tool.name, tool))

\* upsert_tool's persist_twin
PersistTwin(twin_uuid) == IF twin_uuid = Nil THEN None ELSE Some(twin_uuid)

\* reg.get(&scope).and_then(|m| m.get(&name))
Entry(reg, scope, name) ==
    IF scope \in DOMAIN reg /\ name \in DOMAIN reg[scope]
    THEN Some(reg[scope][name]) ELSE None

\* a lookup that tries the global scope first
Lookup_GlobalFirst(reg, twin_uuid, tool_name) ==
    IF Entry(reg, Nil, tool_name) # None
    THEN Entry(reg, Nil, tool_name)
    ELSE Entry(reg, twin_uuid, tool_name)

\* a lookup that falls back to whatever scope holds the name
Lookup_AnyScope(reg, twin_uuid, tool_name) ==
    IF Entry(reg, twin_uuid, tool_name) # None
    THEN Entry(reg, twin_uuid, tool_name)
    ELSE IF \E s \in DOMAIN reg : Entry(reg, s, tool_name) # None
    THEN Entry(reg, CHOOSE s \in DOMAIN reg : Entry(reg, s, tool_name) # None, tool_name)
    ELSE None

\* execute_tool's lookup: the caller's own scope, or else the global one
Lookup(reg, twin_uuid, tool_name) ==
    IF Entry(reg, twin_uuid, tool_name) # None
    THEN Entry(reg, twin_uuid, tool_name)
    ELSE Entry(reg, Nil, tool_name)

----------------------------------------------------------------------------
(* The files the locators and manifests point to *)

LIB_A == <<"/","a">>
LIB_B == <<"/","b">>
\* a file that exists and is no loadable library
LIB_BAD == <<"/","c">>
\* no such file
LIB_MISSING == <<"/","z">>
WASM_M == <<"/","m">>
COMPONENT_K == <<"/","k">>
\* the executable of a Binary plugin
BINARY_X == <<"/","x">>

Files == {LIB_A, LIB_B, LIB_BAD, WASM_M, COMPONENT_K, BINARY_X}

\* a symbolic link to the library /a
LIB_A_LINK == <<"/","l">>

\* the file a path leads to once the filesystem has followed symbolic links
Target(path) == IF path = LIB_A_LINK THEN LIB_A ELSE path

\* a canonicalize that answers for a path that does not exist
canonicalize_Unchecked(path) == Some(Target(path))

\* a canonicalize that leaves symbolic links in the path
canonicalize_NoResolve(path) == IF Target(path) \in Files THEN Some(path) ELSE None

\* Path::canonicalize: the absolute path with every link resolved, Err for a
\* path that does not exist
canonicalize(path) == IF Target(path) \in Files THEN Some(Target(path)) ELSE None

\* whether Library::new(path) returns Ok
Loadable(path) == Target(path) \in {LIB_A, LIB_B}

\* the symbols lib.get finds in a library
Symbols(path) ==
    IF Target(path) = LIB_A
    THEN {"run", "register_tools_count", "register_tools", "free_cstring"}
    ELSE IF Target(path) = LIB_B
    THEN {"run", "register_tools_count", "register_tools"}
    ELSE {}

\* what the registration exports of a library describe: (name, endpoint)
Exported(path) ==
    IF path = LIB_A THEN <<[name |-> "n1", endpoint |-> "run"]>>
    ELSE IF path = LIB_B THEN <<[name |-> "n2", endpoint |-> "run"]>>
    ELSE IF path = WASM_M THEN <<[name |-> "n4", endpoint |-> "run"]>>
    ELSE << >>

----------------------------------------------------------------------------
(* Tasks, worker threads, the mutex of LOADED_LIBS *)

CallerTask(c) == <<"caller", c>>
WatcherTask == <<"watcher">>

\* positions in which a task sits inside a synchronous call (shared_lib,
\* wasm_plugin, wasm_component_plugin) and so keeps its worker thread
BlockingPcs == {"lib_lock", "lib_call", "lib_free", "wasm_call", "component_call"}

WatcherBlockingPcs == {"reg_lock", "reg_call", "wasm_reg", "unload"}

Blocked ==
    {CallerTask(c) : c \in {d \in Callers : req[d].pc \in BlockingPcs}}
        \cup (IF watcher.pc \in WatcherBlockingPcs THEN {WatcherTask} ELSE {})

\* a worker thread of the runtime is there to poll a task
FreeWorker == Cardinality(Blocked) < NumWorkers

\* a lock that is handed out while another thread holds it
MutexFree_Always == TRUE

\* libs().lock() returns: nobody holds the mutex
MutexFree == lib_mutex.owner = None

Unlocked == [owner |-> None, poisoned |-> lib_mutex.poisoned]
LockedBy(task) == [owner |-> Some(task), poisoned |-> lib_mutex.poisoned]
\* a guard dropped by a panic
Poisoned == [owner |-> None, poisoned |-> TRUE]

----------------------------------------------------------------------------
(* HTTP handlers *)

IdleReq ==
    [pc |-> "idle", op |-> "none", twin |-> Nil, name |-> "", tool |-> None,
     backend |-> "none", path |-> None, status |-> 0, body |-> "",
     counted |-> << >>, timed |-> 0, listed |-> << >>, ret |-> None, read |-> None,
     bytes |-> None, mem |-> << >>]

Answer(r, status, body) == [r EXCEPT !.pc = "respond", !.status = status, !.body = body]

\* metrics::counter!("pagi_tool_executions_total", tool, status).increment(1)
Counted(r, outcome) == [r EXCEPT !.counted = Append(@, outcome)]

\* the counter and metrics::histogram!(..).record(started.elapsed())
Metered(r, outcome) == [Counted(r, outcome) EXCEPT !.timed = @ + 1]

\* POST /register_tool up to the first await of persist_tool: the payload is
\* taken and upsert_tool writes the in-memory map under the write lock.
RegisterTool(c, twins, tools) ==
    /\ req[c].pc = "idle"
    /\ FreeWorker
    /\ \E twin_id \in twins, tool \in tools :
        /\ req' = [req EXCEPT ![c] =
                      [IdleReq EXCEPT !.pc = "persist", !.op = "register",
                          !.twin = twin_id, !.name = tool.name, !.tool = Some(tool)]]
        /\ registry' = RegistryInsert(registry, twin_id, tool)
    /\ UNCHANGED <<redis, loaded_libs, lib_mutex, fs, chan, watcher, env, children, main, engine>>

\* persist_tool and register_tool's match on its result: Ok => 200, and a
\* Redis error (no connection, HSET failed) => 500 with the store untouched
UpsertPersist(c, outcomes) ==
    /\ req[c].pc = "persist"
    /\ req[c].op = "register"
    /\ FreeWorker
    /\ \E ok \in outcomes :
        IF ok
        THEN /\ redis' = persist_tool(redis, PersistTwin(req[c].twin), req[c].tool[1])
             /\ req' = [req EXCEPT ![c] = Answer(@, 200, "")]
        ELSE /\ redis' = redis
             /\ req' = [req EXCEPT ![c] = Answer(@, 500, "RedisError")]
    /\ UNCHANGED <<registry, loaded_libs, lib_mutex, fs, chan, watcher, env, children, main, engine>>

\* a dispatcher that takes every locator that begins with "wasm" for a module
\* of the legacy executor
Backend_WasmAnySuffix(tool) ==
    IF strip_prefix(tool.plugin_url, SHAREDLIB_SCHEME) # None THEN "sharedlib"
    ELSE IF strip_prefix(tool.plugin_url, <<"w","a","s","m">>) # None THEN "wasm"
    ELSE IF strip_prefix(tool.plugin_url, COMPONENT_SCHEME) # None THEN "component"
    ELSE "http"

\* which executor execute_tool hands the tool to
Backend(tool) ==
    IF strip_prefix(tool.plugin_url, SHAREDLIB_SCHEME) # None THEN "sharedlib"
    ELSE IF strip_prefix(tool.plugin_url, WASM_SCHEME) # None THEN "wasm"
    ELSE IF strip_prefix(tool.plugin_url, WASM_COMPONENT_SCHEME) # None
            \/ strip_prefix(tool.plugin_url, COMPONENT_SCHEME) # None THEN "component"
    ELSE "http"

\* the path execute_tool passes to the executor it chose
BackendPath(tool) ==
    IF strip_prefix(tool.plugin_url, SHAREDLIB_SCHEME) # None
    THEN strip_prefix(tool.plugin_url, SHAREDLIB_SCHEME)[1]
    ELSE IF strip_prefix(tool.plugin_url, WASM_SCHEME) # None
    THEN strip_prefix(tool.plugin_url, WASM_SCHEME)[1]
    ELSE IF strip_prefix(tool.plugin_url, WASM_COMPONENT_SCHEME) # None
    THEN strip_prefix(tool.plugin_url, WASM_COMPONENT_SCHEME)[1]
    ELSE IF strip_prefix(tool.plugin_url, COMPONENT_SCHEME) # None
    THEN strip_prefix(tool.plugin_url, COMPONENT_SCHEME)[1]
    ELSE tool.plugin_url

\* the request after the lookup and the choice of the executor, at the first
\* point where the handler waits: the mutex of shared_lib, the guest code of a
\* wasm module or component, the HTTP round trip. A sharedlib path that does
\* not canonicalize is answered at once.
Dispatched(r, tool) ==
    LET b == Backend(tool)
        p == canonicalize(BackendPath(tool))
        s == [r EXCEPT !.tool = Some(tool), !.backend = b, !.path = p]
    IN  IF b = "http" THEN [s EXCEPT !.pc = "http_wait", !.path = None]
        ELSE IF p = None THEN Metered(Answer(s, 502, "canonicalize failed"), "error")
        ELSE IF b = "sharedlib" THEN [s EXCEPT !.pc = "lib_lock"]
        ELSE IF b = "wasm" THEN [s EXCEPT !.pc = "wasm_call"]
        ELSE [s EXCEPT !.pc = "component_call"]

\* POST /execute/:tool_name up to the first wait: lookup under the read lock,
\* 404 when the name is found neither at the twin nor globally
ExecuteTool(c, twins, names) ==
    /\ req[c].pc = "idle"
    /\ FreeWorker
    /\ \E twin_id \in twins, tool_name \in names :
        LET r == [IdleReq EXCEPT !.op = "execute", !.twin = twin_id, !.name = tool_name]
            tool == Lookup(registry, twin_id, tool_name)
        IN  req' = [req EXCEPT ![c] =
                       IF tool = None THEN Counted(Answer(r, 404, "not found"), "not_found")
                       ELSE Dispatched(r, tool[1])]
    /\ UNCHANGED <<registry, redis, loaded_libs, lib_mutex, fs, chan, watcher, env, children, main, engine>>

\* a response body of two ASCII bytes: {}
JSON_BODY == <<123, 125>>

\* what the plugin's HTTP server can do with the POST
HttpOutcomes ==
    {[kind |-> k, status |-> st, body |-> JSON_BODY] :
        k \in {"response"}, st \in {200, 404, 503}}
    \cup {[kind |-> "read_error", status |-> 200, body |-> JSON_BODY],
          [kind |-> "timeout", status |-> 0, body |-> << >>],
          [kind |-> "connect", status |-> 0, body |-> << >>]}

\* U+FFFD in UTF-8
REPLACEMENT == <<239, 191, 189>>

RECURSIVE text(_)
\* resp.text() and the String written back as the body: the bytes are decoded
\* as UTF-8 with every malformed sequence replaced by U+FFFD, and encoded
\* again (bodies here hold ASCII bytes and 0xFF, which begins no sequence)
text(bytes) ==
    IF bytes = << >> THEN << >>
    ELSE (IF Head(bytes) < 128 THEN <<Head(bytes)>> ELSE REPLACEMENT) \o text(Tail(bytes))

\* the HTTP executor's answer: the body with 200 for a 2xx, the plugin's own
\* status for a non-2xx, 500 when the body cannot be read, 502 when send fails
HttpAnswer(r, o) ==
    LET s == [r EXCEPT !.ret = Some(o)]
    IN  IF o.kind = "response"
        THEN IF o.status >= 200 /\ o.status < 300
             THEN Metered(Answer([s EXCEPT !.bytes = Some(text(o.body))], 200, "text"), "success")
             ELSE Metered(Answer(s, o.status, "plugin returned status"), "error")
        ELSE IF o.kind = "read_error"
        THEN Metered(Answer(s, 500, "failed to read plugin response"), "error")
        ELSE IF o.kind = "timeout" THEN Metered(Answer(s, 502, "NetworkTimeout"), "error")
        ELSE Metered(Answer(s, 502, "Unknown"), "error")

HttpReturn(c, outcomes) ==
    /\ req[c].pc = "http_wait"
    /\ FreeWorker
    /\ \E o \in outcomes : req' = [req EXCEPT ![c] = HttpAnswer(@, o)]
    /\ UNCHANGED <<registry, redis, loaded_libs, lib_mutex, fs, chan, watcher, env, children, main, engine>>

\* the response leaves; the connection takes the next request
Respond(c) ==
    /\ req[c].pc = "respond"
    /\ req' = [req EXCEPT ![c] = IdleReq]
    /\ UNCHANGED <<registry, redis, loaded_libs, lib_mutex, fs, chan, watcher, env, children, main, engine>>

\* GET /health and /healthz: answered "OK" as soon as a worker polls the task
Health(c) ==
    /\ req[c].pc = "idle"
    /\ FreeWorker
    /\ req' = [req EXCEPT ![c] = Answer([IdleReq EXCEPT !.op = "health"], 200, "OK")]
    /\ UNCHANGED <<registry, redis, loaded_libs, lib_mutex, fs, chan, watcher, env, children, main, engine>>

----------------------------------------------------------------------------
(* shared_lib.rs: execute_tool *)

\* libs().lock() returns, and execute_tool runs up to the call of the entry
\* point: Err on a poisoned mutex; a library not in the table is loaded, and
\* a load that fails panics in expect() and poisons the mutex; a symbol that
\* is missing is an Err. The guard is held while the entry point runs.
LibLock(c) ==
    /\ req[c].pc = "lib_lock"
    /\ MutexFree
    /\ LET path == req[c].path[1]
           symbol_name == req[c].tool[1].endpoint
       IN  IF lib_mutex.poisoned
           THEN /\ req' = [req EXCEPT ![c] = Metered(Answer(@, 502, "loaded lib mutex poisoned"), "error")]
                /\ UNCHANGED <<loaded_libs, lib_mutex>>
           ELSE IF path \notin loaded_libs /\ ~Loadable(path)
           THEN /\ req' = [req EXCEPT ![c].pc = "panicked"]
                /\ lib_mutex' = Poisoned
                /\ UNCHANGED loaded_libs
           ELSE IF symbol_name \notin Symbols(path)
           THEN /\ req' = [req EXCEPT ![c] = Metered(Answer(@, 502, "missing tool symbol"), "error")]
                /\ loaded_libs' = loaded_libs \cup {path}
                /\ UNCHANGED lib_mutex
           ELSE /\ req' = [req EXCEPT ![c].pc = "lib_call"]
                /\ loaded_libs' = loaded_libs \cup {path}
                /\ lib_mutex' = LockedBy(CallerTask(c))
    /\ UNCHANGED <<registry, redis, fs, chan, watcher, env, children, main, engine>>

\* what the host does with a pointer the library returned
FfiOp(op, ptr) == [op |-> op, ptr |-> ptr]

\* a host that hands the string back before it has copied it
FfiOps_FreeFirst(ptr, has_free) ==
    IF ptr = "NULL" THEN << >>
    ELSE (IF has_free THEN <<FfiOp("free_cstring", ptr)>> ELSE << >>)
             \o <<FfiOp("copy", ptr)>>

\* execute_tool on the pointer the entry point returned: nothing on NULL;
\* else CStr::from_ptr(ptr).to_string_lossy().into_owned(), then
\* free_cstring(ptr) when lib.get finds that export
FfiOps(ptr, has_free) ==
    IF ptr = "NULL" THEN << >>
    ELSE <<FfiOp("copy", ptr)>>
             \o (IF has_free THEN <<FfiOp("free_cstring", ptr)>> ELSE << >>)

\* the entry point returns: NULL is an Err; a string is copied out, and the
\* free hook of the library, when it has one, is called with the pointer
LibReturn(c) ==
    /\ req[c].pc = "lib_call"
    /\ \E ptr \in {"NULL", "cstr"} :
        LET has_free == "free_cstring" \in Symbols(req[c].path[1])
            r == [req[c] EXCEPT !.ret = Some(ptr), !.mem = FfiOps(ptr, has_free)]
        IN  IF ptr = "NULL"
            THEN /\ req' = [req EXCEPT ![c] = Metered(Answer(r, 502, "returned NULL"), "error")]
                 /\ lib_mutex' = Unlocked
            ELSE IF has_free
            THEN /\ req' = [req EXCEPT ![c] = [r EXCEPT !.pc = "lib_free"]]
                 /\ UNCHANGED lib_mutex
            ELSE /\ req' = [req EXCEPT ![c] = Metered(Answer(r, 200, "cstr"), "success")]
                 /\ lib_mutex' = Unlocked
    /\ UNCHANGED <<registry, redis, loaded_libs, fs, chan, watcher, env, children, main, engine>>

\* free_cstring returns, the guard is dropped, Ok(result_json)
LibFreeReturn(c) ==
    /\ req[c].pc = "lib_free"
    /\ req' = [req EXCEPT ![c] = Metered(Answer(@, 200, "cstr"), "success")]
    /\ lib_mutex' = Unlocked
    /\ UNCHANGED <<registry, redis, loaded_libs, fs, chan, watcher, env, children, main, engine>>

\* a handler that panicked answers nothing: the connection is closed
ConnectionClosed(c) ==
    /\ req[c].pc = "panicked"
    /\ req' = [req EXCEPT ![c] = IdleReq]
    /\ UNCHANGED <<registry, redis, loaded_libs, lib_mutex, fs, chan, watcher, env, children, main, engine>>

----------------------------------------------------------------------------
(* wasm_plugin.rs and wasm_component_plugin.rs: execute_tool *)

\* 2^16 and 2^15: a 64-bit value is kept as its four 16-bit limbs, the most
\* significant first, so that no intermediate result leaves 32 bits
LIMB == 65536
SIGN == 32768

\* `x as i32` of the 32-bit pattern with limbs hi and lo (two's complement)
as_i32(hi, lo) == IF hi < SIGN THEN hi * LIMB + lo ELSE (hi - LIMB) * LIMB + lo

\* a decoding that takes the pointer from the low half and the length from
\* the high half
pack_u64_to_i32_pair_Swapped(v) == <<as_i32(v[3], v[4]), as_i32(v[1], v[2])>>

\* pack_u64_to_i32_pair: ptr = (u >> 32) as u32 as i32 and
\* len = (u & 0xFFFF_FFFF) as u32 as i32, for u = v as u64
pack_u64_to_i32_pair(v) == <<as_i32(v[1], v[2]), as_i32(v[3], v[4])>>

\* the size in bytes of the guest's exported memory: one page
MEMORY_SIZE == 65536

\* memory.read(&mut store, ptr, buf) of buf.len() = len bytes: Err when the
\* range does not lie inside the memory
InBounds(ptr, len) == ptr <= MEMORY_SIZE /\ len <= MEMORY_SIZE - ptr

\* how the call of the tool function ends: a trap, or a returned i64
Trap == [kind |-> "trap", v |-> <<0, 0, 0, 0>>]
Returned(v) == [kind |-> "ret", v |-> v]

\* serde_json::to_string(params) as bytes: {}
PARAMS == <<123, 125>>

\* what the host asks of the guest's memory: the exports alloc and dealloc,
\* and memory.write and memory.read, each on len bytes at ptr
MemOp(op, ptr, len) == [op |-> op, ptr |-> ptr, len |-> len]

\* the calls of wasm_plugin::execute_tool into the guest's memory, in order,
\* when alloc returned in_ptr and the tool function ended with o: alloc and
\* write of the parameters (a failed write returns); the tool call (a trap
\* returns); dealloc of the input; the decoding (a pointer or length that is
\* not positive returns); read of the output (a range outside the memory
\* returns); dealloc of the output
HostOps(in_ptr, o) ==
    LET out_ptr == pack_u64_to_i32_pair(o.v)[1]
        out_len == pack_u64_to_i32_pair(o.v)[2]
        input == <<MemOp("alloc", in_ptr, Len(PARAMS))>>
        called == input \o <<MemOp("write", in_ptr, Len(PARAMS))>>
        freed == called \o <<MemOp("dealloc", in_ptr, Len(PARAMS))>>
    IN  IF in_ptr < 0 \/ ~InBounds(in_ptr, Len(PARAMS)) THEN input
        ELSE IF o.kind = "trap" THEN called
        ELSE IF out_ptr <= 0 \/ out_len <= 0 \/ ~InBounds(out_ptr, out_len) THEN freed
        ELSE freed \o <<MemOp("read", out_ptr, out_len), MemOp("dealloc", out_ptr, out_len)>>

\* wasm_plugin::execute_tool from alloc on, and the match of main.rs on its
\* result: a write of the parameters outside the memory, a trap, a packed
\* pointer or length that is not positive, and a range outside the memory
\* are an Err (502); else the len bytes at ptr are the result (200)
WasmAnswer(r, in_ptr, o) ==
    LET out_ptr == pack_u64_to_i32_pair(o.v)[1]
        out_len == pack_u64_to_i32_pair(o.v)[2]
        s == [r EXCEPT !.mem = HostOps(in_ptr, o)]
    IN  IF in_ptr < 0 \/ ~InBounds(in_ptr, Len(PARAMS))
        THEN Metered(Answer(s, 502, "memory write failed"), "error")
        ELSE IF o.kind = "trap"
        THEN Metered(Answer(s, 502, "tool call failed"), "error")
        ELSE IF out_ptr <= 0 \/ out_len <= 0
        THEN Metered(Answer([s EXCEPT !.ret = Some(o.v)], 502,
                            "tool returned empty output"), "error")
        ELSE IF ~InBounds(out_ptr, out_len)
        THEN Metered(Answer([s EXCEPT !.ret = Some(o.v), !.read = Some(<<out_ptr, out_len>>)],
                            502, "memory read failed"), "error")
        ELSE Metered(Answer([s EXCEPT !.ret = Some(o.v), !.read = Some(<<out_ptr, out_len>>)],
                            200, "out"), "success")

\* the module was loaded, instantiated and run on the handler's thread: the
\* guest's alloc returned one of in_ptrs, the tool function ended as one of rets
WasmReturn(c, in_ptrs, rets) ==
    /\ req[c].pc = "wasm_call"
    /\ \E in_ptr \in in_ptrs, o \in rets :
          req' = [req EXCEPT ![c] = WasmAnswer(@, in_ptr, o)]
    /\ UNCHANGED <<registry, redis, loaded_libs, lib_mutex, fs, chan, watcher, env, children, main, engine>>

\* how the call of the component's execute ends: the success variant, the
\* error variant, each with the guest's string, or a trap
ComponentOutcomes ==
    {[kind |-> k, msg |-> m] : k \in {"ok", "err"}, m \in {"out", "no such endpoint"}}
    \cup {[kind |-> "trap", msg |-> "unreachable"]}

\* wasm_component_plugin::execute_tool from the call of execute on, and the
\* match of main.rs on its result: Ok(s) is answered 200 with s; the error
\* variant and a trap are both an Err(String), answered 502 with a
\* PagiError::plugin_exec, whose code is PluginExecutionFailed
ComponentAnswer(r, o) ==
    IF o.kind = "ok"
    THEN Metered(Answer([r EXCEPT !.ret = Some(o)], 200, o.msg), "success")
    ELSE Metered(Answer([r EXCEPT !.ret = Some(o)], 502, "PluginExecutionFailed"), "error")

\* the component was loaded, instantiated and run on the handler's thread
ComponentReturn(c, outcomes) ==
    /\ req[c].pc = "component_call"
    /\ \E o \in outcomes : req' = [req EXCEPT ![c] = ComponentAnswer(@, o)]
    /\ UNCHANGED <<registry, redis, loaded_libs, lib_mutex, fs, chan, watcher, env, children, main, engine>>

----------------------------------------------------------------------------
(* auto_discover.rs: manifests *)

\* the folders of the plugin directory
Plugins == {"p1", "p2"}

\* a folder without manifest.toml
NoManifest == None

\* manifest.toml of a plugin folder. PluginManifest: the plugin's type, the
\* path its type reads, plugin_url, and the tools it lists (ToolDefinition:
\* name, endpoint). toml_ok: whether toml::from_str parses the file. sig: the
\* detached signature manifest.toml.sig, "absent", or what cosign verify-blob
\* says of it, "accepted" or "rejected".
Manifest(type, path, url, tools) ==
    [plugin_type |-> type,
     binary_path |-> IF type = "binary" THEN path ELSE None,
     lib_path |-> IF type = "shared_lib" THEN path ELSE None,
     wasm_path |-> IF type = "wasm" THEN path ELSE None,
     wasm_component_path |-> IF type = "component_wasm" THEN path ELSE None,
     plugin_url |-> url, tools |-> tools, toml_ok |-> TRUE, sig |-> "absent"]

\* the same manifest next to a signature file
Signed(m, verdict) == [m EXCEPT !.sig = verdict]

\* a manifest.toml that is no valid TOML of a PluginManifest
Garbled(m) == [m EXCEPT !.toml_ok = FALSE]

\* a verification that lets every manifest through
SignatureGate_BestEffort(e, m) == TRUE

\* the signature check at the head of register_plugin_from_manifest: TRUE
\* when the function goes on to read the manifest, FALSE when it returns Err
SignatureGate(e, m) ==
    IF e.sig_mode = "off" THEN TRUE
    ELSE IF e.pubkey
    THEN IF m.sig # "absent"
         THEN m.sig = "accepted" \/ e.sig_mode # "strict"
         ELSE e.sig_mode # "strict"
    ELSE e.sig_mode # "strict"

\* what register_plugin_from_manifest upserts for a manifest that lists its
\* tools itself: each ToolDefinition under the given locator
FromDefinitions(tool_defs, plugin_url) ==
    [i \in DOMAIN tool_defs |->
        ToolSchema(tool_defs[i].name, plugin_url, tool_defs[i].endpoint)]

\* what it upserts for a shared library: the tools shared_lib::register_tools
\* copied out of the library, with plugin_url forced to sharedlib://<canonical>
FromLibrary(canonical) ==
    FromDefinitions(Exported(canonical), SHAREDLIB_SCHEME \o canonical)

\* a registration that files the tools of a wasm module under the locator of
\* a component
FromModule_ComponentScheme(canonical) ==
    FromDefinitions(Exported(canonical), WASM_COMPONENT_SCHEME \o canonical)

\* and for a wasm module: the tools the guest registered through the host
\* import, with plugin_url forced to wasm://<canonical>
FromModule(canonical) ==
    FromDefinitions(Exported(canonical), WASM_SCHEME \o canonical)

----------------------------------------------------------------------------
(* auto_discover.rs: the watcher task *)

\* the notify watcher is installed: once the initial scan has returned
\* (watcher.initial tells the initial scan from the rescans)
Watching == watcher.pc \in {"idle", "debounce", "dead"} \/ ~watcher.initial

\* an event is sent into the channel (the model keeps at most MaxEvents)
Notify == IF Watching /\ chan < MaxEvents THEN chan + 1 ELSE chan

\* a manifest.toml appears in a plugin folder
AddManifest(p, manifests) ==
    /\ fs[p] = NoManifest
    /\ \E m \in manifests : fs' = [fs EXCEPT ![p] = Some(m)]
    /\ chan' = Notify
    /\ UNCHANGED <<registry, redis, req, loaded_libs, lib_mutex, watcher, env, children, main, engine>>

\* a manifest.toml is removed from a plugin folder
RemoveManifest(p) ==
    /\ fs[p] # NoManifest
    /\ fs' = [fs EXCEPT ![p] = NoManifest]
    /\ chan' = Notify
    /\ UNCHANGED <<registry, redis, req, loaded_libs, lib_mutex, watcher, env, children, main, engine>>

\* a manifest.toml is written again with the content it had: the directory
\* holds what it held, and the notify watcher reports the write
Touch(p) ==
    /\ fs[p] # NoManifest
    /\ chan' = Notify
    /\ chan' # chan
    /\ UNCHANGED <<registry, redis, req, loaded_libs, lib_mutex, fs, watcher, env, children, main, engine>>

\* scan_and_register_plugins begins: read_dir lists the plugin folders
BeginScan(w) == [w EXCEPT !.pc = "scan", !.todo = DOMAIN fs, !.keep_libs = {},
                          !.tools = << >>, !.path = None]

\* the loop of scan_and_register_plugins goes on with the tools of one
\* manifest left to upsert, or to the next folder
Continue(w, tools) ==
    IF tools = << >> THEN [w EXCEPT !.pc = "scan", !.tools = << >>, !.path = None]
    ELSE [w EXCEPT !.pc = "upsert", !.tools = tools, !.path = None]

\* spawn_plugin_watcher: the initial scan on startup
InitialScan ==
    /\ watcher.pc = "start"
    /\ FreeWorker
    /\ watcher' = BeginScan(watcher)
    /\ UNCHANGED <<registry, redis, req, loaded_libs, lib_mutex, fs, chan, env, children, main, engine>>

\* the child tokio::process::Command forks for a Binary plugin, before exec
Child(p, path) ==
    [plugin |-> p, binary |-> path, pc |-> "forked", nnp |-> FALSE,
     loaded |-> FALSE, failed_rules |-> {}]

\* a spawn that leaves a plugin alone while a child of it is known
Spawned_OncePerPlugin(chs, p, path) ==
    IF \E i \in DOMAIN chs : chs[i].plugin = p THEN chs ELSE Append(chs, Child(p, path))

\* tokio::spawn of the task that runs the Command: one more child, whatever
\* children there are
Spawned(chs, p, path) == Append(chs, Child(p, path))

\* one folder of the scan: no manifest.toml => next folder; otherwise
\* register_plugin_from_manifest up to its first wait. A manifest the signature
\* check refuses, or that does not parse, is an Err the scan logs. A SharedLib
\* manifest whose library exists puts the canonical path into keep_libs and
\* enters shared_lib::register_tools; a Wasm manifest whose module exists
\* enters wasm_plugin::register_tools; a ComponentWasm manifest whose component
\* exists has its listed tools upserted under wasm-component://<canonical>; a
\* Binary manifest whose executable exists spawns a child and sleeps. A path
\* that is not set or does not exist registers nothing. Any other manifest
\* with a plugin_url has its listed tools upserted under that URL.
ScanFolder(p) ==
    /\ watcher.pc = "scan"
    /\ p \in watcher.todo
    /\ FreeWorker
    /\ LET w == [watcher EXCEPT !.todo = @ \ {p}]
           m == fs[p][1]
       IN  IF fs[p] = NoManifest \/ ~SignatureGate(env, m) \/ ~m.toml_ok
           THEN watcher' = w /\ UNCHANGED children
           ELSE IF m.plugin_type = "shared_lib"
           THEN /\ IF m.lib_path # None /\ canonicalize(m.lib_path[1]) # None
                   THEN watcher' =
                          [w EXCEPT !.pc = "reg_lock",
                                    !.path = canonicalize(m.lib_path[1]),
                                    !.keep_libs = @ \cup {canonicalize(m.lib_path[1])[1]}]
                   ELSE watcher' = w
                /\ UNCHANGED children
           ELSE IF m.plugin_type = "wasm"
           THEN /\ IF m.wasm_path # None /\ canonicalize(m.wasm_path[1]) # None
                   THEN watcher' = [w EXCEPT !.pc = "wasm_reg",
                                             !.path = canonicalize(m.wasm_path[1])]
                   ELSE watcher' = w
                /\ UNCHANGED children
           ELSE IF m.plugin_type = "component_wasm"
           THEN /\ IF /\ m.wasm_component_path # None
                      /\ canonicalize(m.wasm_component_path[1]) # None
                   THEN watcher' =
                          Continue(w, FromDefinitions(m.tools,
                              WASM_COMPONENT_SCHEME \o canonicalize(m.wasm_component_path[1])[1]))
                   ELSE watcher' = w
                /\ UNCHANGED children
           ELSE IF m.plugin_type = "binary"
           THEN IF m.binary_path # None /\ canonicalize(m.binary_path[1]) # None
                THEN /\ Len(children) < MaxChildren
                     /\ children' = Spawned(children, p, m.binary_path[1])
                     /\ watcher' = [w EXCEPT !.pc = "spawn_sleep"]
                ELSE watcher' = w /\ UNCHANGED children
           ELSE /\ IF m.plugin_url = None THEN watcher' = w
                   ELSE watcher' = Continue(w, FromDefinitions(m.tools, m.plugin_url[1]))
                /\ UNCHANGED children
    /\ UNCHANGED <<registry, redis, req, loaded_libs, lib_mutex, fs, chan, env, main, engine>>

\* wasm_plugin::register_tools returns on the watcher's thread: Err when the
\* module does not load, link or instantiate, else the tools its init()
\* registered
WasmRegisterReturn ==
    /\ watcher.pc = "wasm_reg"
    /\ \E ok \in BOOLEAN :
        watcher' = IF ok THEN Continue(watcher, FromModule(watcher.path[1]))
                   ELSE Continue(watcher, << >>)
    /\ UNCHANGED <<registry, redis, req, loaded_libs, lib_mutex, fs, chan, env, children, main, engine>>

\* the sleep that gives a spawned binary time to self-register is over
SpawnSleepDone ==
    /\ watcher.pc = "spawn_sleep"
    /\ FreeWorker
    /\ watcher' = Continue(watcher, << >>)
    /\ UNCHANGED <<registry, redis, req, loaded_libs, lib_mutex, fs, chan, env, children, main, engine>>

\* the deny array of apply_seccomp_deny_dangerous (two of its 19 names)
DenyList == {"ptrace", "mount"}

\* where apply_seccomp_deny_dangerous can stop
SeccompOutcomes == {"prctl_failed", "filter_new_failed", "load_failed", "loaded"}

\* apply_seccomp_deny_dangerous in the child: an Err of prctl, Filter::new or
\* load is returned and the child does not exec; the result of add_rule is
\* dropped (`failed`: the rules add_rule refused), and Ok lets the child exec
apply_seccomp_deny_dangerous(ch, outcome, failed) ==
    IF outcome = "prctl_failed" THEN [ch EXCEPT !.pc = "aborted"]
    ELSE IF outcome = "filter_new_failed" THEN [ch EXCEPT !.pc = "aborted", !.nnp = TRUE]
    ELSE IF outcome = "load_failed"
    THEN [ch EXCEPT !.pc = "aborted", !.nnp = TRUE, !.failed_rules = failed]
    ELSE [ch EXCEPT !.pc = "exec", !.nnp = TRUE, !.loaded = TRUE, !.failed_rules = failed]

\* the child between fork and exec: pre_exec runs the filter installation
\* when PAGI_PLUGIN_SECCOMP=true, and the binary is executed when it returns Ok
ChildPreExec(i) ==
    /\ i \in DOMAIN children
    /\ children[i].pc = "forked"
    /\ IF env.seccomp
       THEN \E outcome \in SeccompOutcomes, failed \in SUBSET DenyList :
               /\ outcome \in {"prctl_failed", "filter_new_failed"} => failed = {}
               /\ children' = [children EXCEPT
                                  ![i] = apply_seccomp_deny_dangerous(@, outcome, failed)]
       ELSE children' = [children EXCEPT ![i].pc = "exec"]
    /\ UNCHANGED <<registry, redis, req, loaded_libs, lib_mutex, fs, chan, watcher, env, main, engine>>

\* cmd.status() returns: the child has exited, or was never executed
ChildExit(i) ==
    /\ i \in DOMAIN children
    /\ children[i].pc \in {"exec", "aborted"}
    /\ children' = SubSeq(children, 1, i - 1) \o SubSeq(children, i + 1, Len(children))
    /\ UNCHANGED <<registry, redis, req, loaded_libs, lib_mutex, fs, chan, watcher, env, main, engine>>

\* shared_lib::register_tools after libs().lock(): Err on a poisoned mutex;
\* a library not in the table is loaded, and a failed load panics in expect()
\* inside the watcher task and poisons the mutex; a missing registration
\* export is an Err; otherwise the exports run under the guard.
RegisterToolsLock ==
    /\ watcher.pc = "reg_lock"
    /\ MutexFree
    /\ LET path == watcher.path[1]
       IN  IF lib_mutex.poisoned
           THEN /\ watcher' = Continue(watcher, << >>)
                /\ UNCHANGED <<loaded_libs, lib_mutex>>
           ELSE IF path \notin loaded_libs /\ ~Loadable(path)
           THEN /\ watcher' = [watcher EXCEPT !.pc = "dead"]
                /\ lib_mutex' = Poisoned
                /\ UNCHANGED loaded_libs
           ELSE IF ~({"register_tools_count", "register_tools"} \subseteq Symbols(path))
           THEN /\ watcher' = Continue(watcher, << >>)
                /\ loaded_libs' = loaded_libs \cup {path}
                /\ UNCHANGED lib_mutex
           ELSE /\ watcher' = [watcher EXCEPT !.pc = "reg_call"]
                /\ loaded_libs' = loaded_libs \cup {path}
                /\ lib_mutex' = LockedBy(WatcherTask)
    /\ UNCHANGED <<registry, redis, req, fs, chan, env, children, main, engine>>

\* what the library's register_tools export hands back
ToolsPtrs == {"NULL", "array"}

\* register_tools_count and register_tools return: a NULL array is an Err,
\* otherwise the descriptors are copied and the guard is dropped
RegisterToolsReturn(ptrs) ==
    /\ watcher.pc = "reg_call"
    /\ \E tools_ptr \in ptrs :
        watcher' = IF tools_ptr = "NULL" THEN Continue(watcher, << >>)
                   ELSE Continue(watcher, FromLibrary(watcher.path[1]))
    /\ lib_mutex' = Unlocked
    /\ UNCHANGED <<registry, redis, req, loaded_libs, fs, chan, env, children, main, engine>>

\* a scan that registers at the twin t1 when the flag is not set
ScanTwinId_Scoped(global_tools) == IF global_tools THEN global_twin_id ELSE "t1"

\* let twin_id = if global_tools { global_twin_id() } else { global_twin_id() }
ScanTwinId(global_tools) == IF global_tools THEN global_twin_id ELSE global_twin_id

\* upsert_tool(state, twin_id, &tool) of the watcher, up to the first await
\* of persist_tool
WatcherUpsert ==
    /\ watcher.pc = "upsert"
    /\ FreeWorker
    /\ registry' = RegistryInsert(registry, ScanTwinId(watcher.auto_register_global),
                                 Head(watcher.tools))
    /\ watcher' = [watcher EXCEPT !.pc = "persist"]
    /\ UNCHANGED <<redis, req, loaded_libs, lib_mutex, fs, chan, env, children, main, engine>>

\* persist_tool for the watcher: an Err is logged and the loop goes on
WatcherPersist(outcomes) ==
    /\ watcher.pc = "persist"
    /\ FreeWorker
    /\ \E ok \in outcomes :
        redis' = IF ok
                 THEN persist_tool(redis, PersistTwin(ScanTwinId(watcher.auto_register_global)),
                                   Head(watcher.tools))
                 ELSE redis
    /\ watcher' = Continue(watcher, Tail(watcher.tools))
    /\ UNCHANGED <<registry, req, loaded_libs, lib_mutex, fs, chan, env, children, main, engine>>

\* the folders are done: scan_and_register_plugins calls unload_not_in, which
\* waits for the mutex on the watcher's thread
ScanDone ==
    /\ watcher.pc = "scan"
    /\ watcher.todo = {}
    /\ FreeWorker
    /\ watcher' = [watcher EXCEPT !.pc = "unload"]
    /\ UNCHANGED <<registry, redis, req, loaded_libs, lib_mutex, fs, chan, env, children, main, engine>>

\* a retain whose predicate is inverted
Retain_Inverted(table, keep) == {k \in table : k \notin keep}

\* guard.retain(|k, _| keep.contains(k))
Retain(table, keep) == {k \in table : k \in keep}

\* an unload that does not wait for the mutex
UnloadNotIn_NoLock ==
    /\ watcher.pc = "unload"
    /\ IF lib_mutex.poisoned
       THEN /\ watcher' = [watcher EXCEPT !.pc = "dead"]
            /\ UNCHANGED loaded_libs
       ELSE /\ loaded_libs' = Retain(loaded_libs, watcher.keep_libs)
            /\ watcher' = [watcher EXCEPT !.pc = "idle", !.keep_libs = {}]
    /\ UNCHANGED <<registry, redis, req, lib_mutex, fs, chan, env, children, main, engine>>

\* unload_not_in under the mutex (expect() panics when it is poisoned), then
\* the scan returns and the task waits in rx.recv()
UnloadNotIn ==
    /\ watcher.pc = "unload"
    /\ MutexFree
    /\ IF lib_mutex.poisoned
       THEN /\ watcher' = [watcher EXCEPT !.pc = "dead"]
            /\ UNCHANGED loaded_libs
       ELSE /\ loaded_libs' = Retain(loaded_libs, watcher.keep_libs)
            /\ watcher' = [watcher EXCEPT !.pc = "idle", !.keep_libs = {}]
    /\ UNCHANGED <<registry, redis, req, lib_mutex, fs, chan, env, children, main, engine>>

\* a receive that takes an event while a scan is running and starts over
Recv_DuringScan ==
    /\ watcher.pc \in {"idle", "scan"}
    /\ chan > 0
    /\ FreeWorker
    /\ chan' = chan - 1
    /\ watcher' = IF watcher.pc = "idle" THEN [watcher EXCEPT !.pc = "debounce"]
                  ELSE BeginScan(watcher)
    /\ UNCHANGED <<registry, redis, req, loaded_libs, lib_mutex, fs, env, children, main, engine>>

\* rx.recv() returns an event; the task sleeps the debounce time
Recv ==
    /\ watcher.pc = "idle"
    /\ chan > 0
    /\ FreeWorker
    /\ chan' = chan - 1
    /\ watcher' = [watcher EXCEPT !.pc = "debounce"]
    /\ UNCHANGED <<registry, redis, req, loaded_libs, lib_mutex, fs, env, children, main, engine>>

\* a rescan that leaves the events of the debounce window in the channel
Rescan_NoDrain ==
    /\ watcher.pc = "debounce"
    /\ FreeWorker
    /\ chan' = chan
    /\ watcher' = [BeginScan(watcher) EXCEPT !.initial = FALSE]
    /\ UNCHANGED <<registry, redis, req, loaded_libs, lib_mutex, fs, env, children, main, engine>>

\* the sleep is over: the channel is drained and the rescan begins
Rescan ==
    /\ watcher.pc = "debounce"
    /\ FreeWorker
    /\ chan' = 0
    /\ watcher' = [BeginScan(watcher) EXCEPT !.initial = FALSE]
    /\ UNCHANGED <<registry, redis, req, loaded_libs, lib_mutex, fs, env, children, main, engine>>

----------------------------------------------------------------------------
(* pagi-executive-engine: the refinement artifact of /interact *)

\* u32::MAX as two 16-bit limbs, the most significant first
U32_MAX == <<LIMB - 1, LIMB - 1>>

\* an addition that wraps around at 2^32
saturating_add_Wrapping(v, rhs) ==
    <<(v[1] + (v[2] + rhs) \div LIMB) % LIMB, (v[2] + rhs) % LIMB>>

\* u32::saturating_add for a right-hand side below 2^16: the sum, or u32::MAX
\* when the sum does not fit
saturating_add(v, rhs) ==
    IF v[1] + (v[2] + rhs) \div LIMB >= LIMB THEN U32_MAX
    ELSE <<v[1] + (v[2] + rhs) \div LIMB, (v[2] + rhs) % LIMB>>

\* InstructionsField::Legacy(String) and ::Structured(PlaybookInstructions)
Legacy(s) == [kind |-> "legacy", system_prompt |-> s, reflection_rules |-> << >>]
Structured(s, rules) == [kind |-> "structured", system_prompt |-> s, reflection_rules |-> rules]

\* Playbook: the revision counter and the instructions
Playbook(version, instructions) == [version |-> version, instructions |-> instructions]

\* Playbook::system_prompt
system_prompt(playbook) == playbook.instructions.system_prompt

\* str::trim on the prompts of the model: one of them is a single blank
trim(s) == IF s = " " THEN "" ELSE s

SEED_PROMPT == "You are a self-improving PAGI agent."
SEED_RULES == <<"Analyze outcomes using success metrics.">>
CURATED_RULE == "After every task: evaluate against metrics + ethics."

\* the branch of generate_refinement_artifact on the instructions: an empty
\* prompt is replaced by the seed instructions, and structured instructions
\* gain the curated rule when they do not hold it
Curated(instructions) ==
    IF trim(instructions.system_prompt) = "" THEN Structured(SEED_PROMPT, SEED_RULES)
    ELSE IF instructions.kind = "structured"
            /\ \A i \in DOMAIN instructions.reflection_rules :
                  instructions.reflection_rules[i] # CURATED_RULE
    THEN [instructions EXCEPT !.reflection_rules = Append(@, CURATED_RULE)]
    ELSE instructions

\* generate_refinement_artifact(twin_id, goal, outcome, base)
generate_refinement_artifact(twin_id, goal, outcome, base) ==
    [twin_id |-> Some(twin_id),
     critique |-> <<"Reflection", goal, Len(outcome)>>,
     updated_playbook |-> Playbook(saturating_add(base.version, 1), Curated(base.instructions))]

\* no /interact request in the engine
IdleEngine == [pc |-> "idle", twin_id |-> Nil, goal |-> "", plan |-> << >>,
               playbook |-> Playbook(<<0, 0>>, Legacy("")), artifact |-> None,
               pushed |-> FALSE]

\* step 11 of interact: the plan was sent to the actuator, and the artifact
\* is generated from the playbook pulled at step 1
GenerateArtifact ==
    /\ engine.pc = "acted"
    /\ engine' = [engine EXCEPT
                     !.pc = "respond",
                     !.artifact = Some(generate_refinement_artifact(
                                         engine.twin_id, engine.goal, engine.plan,
                                         engine.playbook))]
    /\ UNCHANGED <<registry, redis, req, loaded_libs, lib_mutex, fs, chan, watcher, env, children, main>>

\* the task interact spawned: try_push_refinement_artifact, whose Err is
\* logged and dropped
PushArtifact(outcomes) ==
    /\ engine.artifact # None
    /\ ~engine.pushed
    /\ \E ok \in outcomes : engine' = [engine EXCEPT !.pushed = TRUE]
    /\ UNCHANGED <<registry, redis, req, loaded_libs, lib_mutex, fs, chan, watcher, env, children, main>>

\* Ok(Json(InteractResponse { status: "plan_executed", output: plan }))
InteractRespond ==
    /\ engine.pc = "respond"
    /\ engine' = [engine EXCEPT !.pc = "done"]
    /\ UNCHANGED <<registry, redis, req, loaded_libs, lib_mutex, fs, chan, watcher, env, children, main>>

----------------------------------------------------------------------------
(* The gateway without auto-discovery: registration and execution over HTTP *)

\* AUTO_DISCOVER_PLUGINS is not "true": no watcher task is spawned
WatcherOff == [pc |-> "off", todo |-> {}, keep_libs |-> {}, tools |-> << >>,
               path |-> None, initial |-> TRUE, auto_register_global |-> TRUE]

\* the environment when no variable is set: PAGI_PLUGIN_VERIFY_SIGNATURES
\* defaults to off, PAGI_PLUGIN_COSIGN_PUBKEY is absent, PAGI_PLUGIN_SECCOMP
\* defaults to false
DefaultEnv == [sig_mode |-> "off", pubkey |-> FALSE, seccomp |-> FALSE]

\* the state main() builds: the registry loaded from the store, nothing in flight
InitEnv(store, dir, w, e) ==
    /\ redis = store
    /\ registry = load_all_tools(store)
    /\ req = [c \in Callers |-> IdleReq]
    /\ loaded_libs = {}
    /\ lib_mutex = [owner |-> None, poisoned |-> FALSE]
    /\ fs = dir
    /\ chan = 0
    /\ watcher = w
    /\ env = e
    /\ children = << >>
    /\ main = "serving"
    /\ engine = IdleEngine

InitWith(store, dir, w) == InitEnv(store, dir, w, DefaultEnv)

EmptyDir == [p \in Plugins |-> NoManifest]

HTTP_H1 == HTTP_SCHEME \o <<"h","1">>
HTTP_H2 == HTTP_SCHEME \o <<"h","2">>

\* the tools HTTP clients register: two definitions of n1
HttpTools == {ToolSchema("n1", HTTP_H1, "/e"), ToolSchema("n1", HTTP_H2, "/e")}

\* the scopes clients register at
RegScopes == {Nil, "t1"}

Init == InitWith(EmptyMap, EmptyDir, WatcherOff)

Next ==
    \E c \in Callers :
        \/ RegisterTool(c, RegScopes, HttpTools)
        \/ UpsertPersist(c, BOOLEAN)
        \/ ExecuteTool(c, Uuids, {"n1"})
        \/ HttpReturn(c, {o \in HttpOutcomes : o.kind = "response" /\ o.status < 500})
        \/ Respond(c)

Spec == Init /\ [][Next]_vars

\* the same gateway while Redis answers every write
NextHealthy ==
    \E c \in Callers :
        \/ RegisterTool(c, RegScopes, HttpTools)
        \/ UpsertPersist(c, {TRUE})
        \/ ExecuteTool(c, Uuids, {"n1"})
        \/ HttpReturn(c, {o \in HttpOutcomes : o.kind = "response" /\ o.status < 500})
        \/ Respond(c)

SpecHealthy == Init /\ [][NextHealthy]_vars

----------------------------------------------------------------------------
(* Claims on the registry *)

Names == {"n1", "n2", "n3"}

\* an upsert_tool call has written the map and not yet heard from Redis
UpsertInFlight(c) == req[c].op = "register" /\ req[c].pc = "persist"

\* the hash of the store that belongs to a scope
ScopeKey(scope) == PersistKey(PersistTwin(scope))

\* C1: when the persistent write of an upsert failed (the call answers 5xx), the
\* registry does not hold the definition that call carried at its (scope,
\* name), unless the store holds that very definition there or another upsert
\* of the same key is still in flight.
C1_WriteThroughOnFailure ==
    \A c \in Callers :
        (req[c].op = "register" /\ req[c].pc = "respond" /\ req[c].status >= 500)
            => \/ Entry(registry, req[c].twin, req[c].name) # req[c].tool
               \/ hget(redis, ScopeKey(req[c].twin), req[c].name)
                      = Some(to_string(req[c].tool[1]))
               \/ \E d \in Callers \ {c} :
                      /\ UpsertInFlight(d)
                      /\ req[d].twin = req[c].twin
                      /\ req[d].name = req[c].name

\* C2: while Redis answers every write, whenever no upsert call is in flight
\* the registry holds at every (scope, name) exactly the definition the store
\* holds there.
C2_RegistryMatchesStore ==
    (\A c \in Callers : ~UpsertInFlight(c))
        => \A scope \in Uuids, name \in Names :
               Entry(registry, scope, name) = Entry(load_all_tools(redis), scope, name)

\* C3: an execute from scope S of a name N that S holds resolves to S's own
\* definition, also when the global scope holds N too; an execute of N from a
\* scope that holds no N resolves to the global definition.
C3_ScopeShadowing ==
    [][\A c \in Callers :
          (req[c].pc = "idle" /\ req'[c].op = "execute")
              => LET own == Entry(registry, req'[c].twin, req'[c].name)
                     global == Entry(registry, Nil, req'[c].name)
                 IN  /\ own # None => req'[c].tool = own
                     /\ (own = None /\ global # None) => req'[c].tool = global
                     /\ (own = None /\ global = None) => req'[c].status = 404]_vars

\* t1 and the global scope hold different definitions of n1; an execute from t1
\* has resolved to t1's and an execute from t2 to the global one
C3_Witness ==
    \E c \in Callers, d \in Callers :
        /\ Entry(registry, "t1", "n1") # None
        /\ Entry(registry, Nil, "n1") # None
        /\ Entry(registry, "t1", "n1") # Entry(registry, Nil, "n1")
        /\ req[c].op = "execute" /\ req[c].pc = "http_wait" /\ req[c].twin = "t1"
        /\ req[c].tool = Entry(registry, "t1", "n1")
        /\ req[d].op = "execute" /\ req[d].pc = "http_wait" /\ req[d].twin = "t2"
        /\ req[d].tool = Entry(registry, Nil, "n1")

----------------------------------------------------------------------------
(* The gateway restarted on a store that holds one tool per kind of locator *)

Url(scheme, path) == scheme \o path

\* near misses of the schemes: one slash, and a longer scheme name
ONE_SLASH == <<"s","h","a","r","e","d","l","i","b",":","/">>
WASMS_SCHEME == <<"w","a","s","m","s",":","/","/">>

DispatchTools ==
    {ToolSchema("lib_a", Url(SHAREDLIB_SCHEME, LIB_A), "run"),
     ToolSchema("lib_b", Url(SHAREDLIB_SCHEME, LIB_B), "run"),
     ToolSchema("lib_nosym", Url(SHAREDLIB_SCHEME, LIB_B), "nosym"),
     ToolSchema("lib_bad", Url(SHAREDLIB_SCHEME, LIB_BAD), "run"),
     ToolSchema("lib_missing", Url(SHAREDLIB_SCHEME, LIB_MISSING), "run"),
     ToolSchema("wasm", Url(WASM_SCHEME, WASM_M), "run"),
     ToolSchema("wasm_component", Url(WASM_COMPONENT_SCHEME, COMPONENT_K), "run"),
     ToolSchema("component", Url(COMPONENT_SCHEME, COMPONENT_K), "run"),
     ToolSchema("http", HTTP_H1, "/e"),
     ToolSchema("one_slash", Url(ONE_SLASH, <<"a">>), "run"),
     ToolSchema("wasms", Url(WASMS_SCHEME, WASM_M), "run")}

DispatchNames == {t.name : t \in DispatchTools}

DispatchStore ==
    Put(EmptyMap, GLOBAL_TOOLS_KEY,
        [n \in DispatchNames |-> to_string(CHOOSE t \in DispatchTools : t.name = n)])

InitDispatch == InitWith(DispatchStore, EmptyDir, WatcherOff)

NextDispatch ==
    \E c \in Callers :
        \/ ExecuteTool(c, {"t1"}, DispatchNames \cup {"unknown"})
        \/ Health(c)
        \/ LibLock(c)
        \/ LibReturn(c)
        \/ LibFreeReturn(c)
        \/ ConnectionClosed(c)
        \/ WasmReturn(c, {8}, {Trap, Returned(<<0, 1, 0, 1>>)})
        \/ ComponentReturn(c, {o \in ComponentOutcomes : o.msg = "out"})
        \/ HttpReturn(c, HttpOutcomes)
        \/ Respond(c)

SpecDispatch == InitDispatch /\ [][NextDispatch]_vars

----------------------------------------------------------------------------
(* Claims on the dispatcher *)

LibPcs == {"lib_lock", "lib_call", "lib_free", "panicked"}

\* C4: the executor an execute of a found tool is handed to is decided by the
\* prefix of its locator alone: sharedlib:// the native-library executor,
\* wasm:// the legacy WebAssembly one, wasm-component:// and component:// the
\* component one, every other locator the HTTP one; and the handler waits only
\* in the executor chosen.
C4_BackendRouting ==
    \A c \in Callers :
        (req[c].op = "execute" /\ req[c].tool # None)
            => LET url == req[c].tool[1].plugin_url
                   b == req[c].backend
               IN  /\ b \in {"sharedlib", "wasm", "component", "http"}
                   /\ b = "sharedlib" <=> StartsWith(url, SHAREDLIB_SCHEME)
                   /\ b = "wasm" <=> StartsWith(url, WASM_SCHEME)
                   /\ b = "component" <=> \/ StartsWith(url, WASM_COMPONENT_SCHEME)
                                         \/ StartsWith(url, COMPONENT_SCHEME)
                   /\ req[c].pc \in LibPcs => b = "sharedlib"
                   /\ req[c].pc = "wasm_call" => b = "wasm"
                   /\ req[c].pc = "component_call" => b = "component"
                   /\ req[c].pc = "http_wait" => b = "http"

\* one execute is inside the entry point of a native library while an execute
\* of sharedlib:/a (one slash) waits for its HTTP backend
C4_Witness ==
    \E c \in Callers, d \in Callers :
        /\ req[c].pc = "lib_call" /\ req[c].name = "lib_a"
        /\ req[d].pc = "http_wait" /\ req[d].name = "one_slash"

\* C5: an execute through the native-library executor always ends in an
\* answer, the string of the entry point or an error, never in a panic of the
\* handler.
C5_NativeExecuteNeverPanics ==
    \A c \in Callers : req[c].backend = "sharedlib" => req[c].pc # "panicked"

\* C6: native-library and WebAssembly calls never take the worker threads that
\* serve network I/O: whatever calls are in progress, a worker is free to
\* serve a health check or an HTTP-backed execute.
C6_BlockingCallsOffloaded == FreeWorker

\* C7: while a call into one library is executing, a call into another
\* library that waits for the handle table can go on.
C7_DifferentLibrariesDoNotSerialize ==
    \A c \in Callers, d \in Callers :
        (/\ req[c].pc \in {"lib_call", "lib_free"}
         /\ req[d].pc = "lib_lock"
         /\ req[d].path # req[c].path)
            => ENABLED LibLock(d)

----------------------------------------------------------------------------
(* The gateway with auto-discovery: scans, native libraries, executes *)

\* AUTO_DISCOVER_PLUGINS=true: the watcher task is spawned by main()
WatcherOn == [WatcherOff EXCEPT !.pc = "start"]

MANIFEST_A == Manifest("shared_lib", Some(LIB_A), None, << >>)
MANIFEST_B == Manifest("shared_lib", Some(LIB_B), None, << >>)
MANIFEST_GONE == Manifest("shared_lib", Some(LIB_MISSING), None, << >>)
MANIFEST_CFG ==
    Manifest("config_only", None, Some(HTTP_H1), <<[name |-> "n3", endpoint |-> "/e"]>>)

\* the manifests that come and go in each folder
Dropped(p) == IF p = "p1" THEN {MANIFEST_A, MANIFEST_GONE} ELSE {MANIFEST_B, MANIFEST_CFG}

InitScan == InitWith(EmptyMap, [EmptyDir EXCEPT !["p1"] = Some(MANIFEST_A)], WatcherOn)

\* the watcher alone: manifests come and go, Redis may refuse a write
NextScan ==
    \/ \E p \in Plugins : AddManifest(p, Dropped(p))
    \/ \E p \in Plugins : RemoveManifest(p)
    \/ InitialScan
    \/ \E p \in Plugins : ScanFolder(p)
    \/ RegisterToolsLock
    \/ RegisterToolsReturn(ToolsPtrs)
    \/ WatcherUpsert
    \/ WatcherPersist(BOOLEAN)
    \/ ScanDone
    \/ UnloadNotIn
    \/ Recv
    \/ Rescan

SpecScan == InitScan /\ [][NextScan]_vars

\* the store of a gateway that has registered the tools of both libraries
LibStore ==
    Put(EmptyMap, GLOBAL_TOOLS_KEY,
        [n \in {"n1", "n2"} |->
            to_string(IF n = "n1" THEN FromLibrary(LIB_A)[1] ELSE FromLibrary(LIB_B)[1])])

InitLibs ==
    InitWith(LibStore, [p \in Plugins |-> IF p = "p1" THEN Some(MANIFEST_A) ELSE Some(MANIFEST_B)],
             WatcherOn)

\* the watcher next to clients that execute the tools of the libraries, while
\* the manifests of the libraries come and go
NextLibs ==
    \/ \E p \in Plugins : AddManifest(p, IF p = "p1" THEN {MANIFEST_A} ELSE {MANIFEST_B})
    \/ \E p \in Plugins : RemoveManifest(p)
    \/ InitialScan
    \/ \E p \in Plugins : ScanFolder(p)
    \/ RegisterToolsLock
    \/ RegisterToolsReturn(ToolsPtrs)
    \/ WatcherUpsert
    \/ WatcherPersist({TRUE})
    \/ ScanDone
    \/ UnloadNotIn
    \/ Recv
    \/ Rescan
    \/ \E c \in Callers :
        \/ ExecuteTool(c, {"t1"}, {"n1", "n2"})
        \/ LibLock(c)
        \/ LibReturn(c)
        \/ LibFreeReturn(c)
        \/ Respond(c)

SpecLibs == InitLibs /\ [][NextLibs]_vars

----------------------------------------------------------------------------
(* Claims on the native libraries and the watcher *)

\* the tasks that execute code of the library at `path`: its entry point or
\* its free export for an execute, its registration exports for the watcher
InLibrary(path) ==
    {CallerTask(c) : c \in {d \in Callers : /\ req[d].pc \in {"lib_call", "lib_free"}
                                           /\ req[d].path = Some(path)}}
        \cup (IF watcher.pc = "reg_call" /\ watcher.path = Some(path)
              THEN {WatcherTask} ELSE {})

\* C8: at most one thread executes code of a given native library, whatever
\* the interleaving of executes and of the watcher's registration calls.
C8_SameLibrarySerialized ==
    \A path \in Files : Cardinality(InLibrary(path)) <= 1

\* an execute is inside the entry point of library A while the watcher, in
\* register_tools for A, waits for the mutex
C8_Witness ==
    \E c \in Callers :
        /\ req[c].pc = "lib_call" /\ req[c].path = Some(LIB_A)
        /\ watcher.pc = "reg_lock" /\ watcher.path = Some(LIB_A)

\* C9: while a call into a native library is in progress, the handle of the
\* library is in the handle table: no scan unloads it under the call.
C9_NoUnloadDuringCall ==
    \A path \in Files : InLibrary(path) # {} => path \in loaded_libs

\* a scan that found no manifest for library A has reached unload_not_in
\* while an execute is inside A's entry point
C9_Witness ==
    \E c \in Callers :
        /\ req[c].pc = "lib_call" /\ req[c].path = Some(LIB_A)
        /\ watcher.pc = "unload"
        /\ LIB_A \notin watcher.keep_libs
        /\ LIB_A \in loaded_libs

\* the tool names a manifest makes the watcher register
DeclaredNames(m) ==
    IF m.plugin_type = "shared_lib"
    THEN IF m.lib_path # None /\ canonicalize(m.lib_path[1]) # None
         THEN {Exported(m.lib_path[1])[i].name : i \in DOMAIN Exported(m.lib_path[1])}
         ELSE {}
    ELSE IF m.plugin_url # None THEN {m.tools[i].name : i \in DOMAIN m.tools}
    ELSE {}

\* C10: when a rescan has completed and no change of the plugin directory is
\* waiting, every tool registered at the global scope comes from a manifest
\* that is present: the tools of a removed manifest are no longer registered.
C10_UnregisteredOnDisappearance ==
    (watcher.pc = "idle" /\ ~watcher.initial /\ chan = 0)
        => \A n \in DOMAIN GetOr(registry, Nil, EmptyMap) :
               \E p \in Plugins : fs[p] # NoManifest /\ n \in DeclaredNames(fs[p][1])

----------------------------------------------------------------------------
(* The watcher over the kinds of manifest that spawn no process *)

MANIFEST_BAD == Manifest("shared_lib", Some(LIB_BAD), None, << >>)
MANIFEST_WASM == Manifest("wasm", Some(WASM_M), None, << >>)
MANIFEST_COMPONENT ==
    Manifest("component_wasm", Some(COMPONENT_K), None, <<[name |-> "n5", endpoint |-> "run"]>>)
\* a Binary manifest whose executable is not there
MANIFEST_NOBIN == Manifest("binary", Some(LIB_MISSING), None, << >>)

\* the manifests that come and go in each folder
Discovered(p) ==
    IF p = "p1" THEN {MANIFEST_A, MANIFEST_BAD, Garbled(MANIFEST_CFG), MANIFEST_NOBIN}
    ELSE {MANIFEST_CFG, MANIFEST_WASM, MANIFEST_COMPONENT, MANIFEST_GONE}

InitDiscover == InitWith(EmptyMap, [EmptyDir EXCEPT !["p2"] = Some(MANIFEST_CFG)], WatcherOn)

NextDiscover ==
    \/ \E p \in Plugins : AddManifest(p, Discovered(p))
    \/ \E p \in Plugins : RemoveManifest(p)
    \/ InitialScan
    \/ \E p \in Plugins : ScanFolder(p)
    \/ RegisterToolsLock
    \/ RegisterToolsReturn(ToolsPtrs)
    \/ WasmRegisterReturn
    \/ WatcherUpsert
    \/ WatcherPersist({TRUE})
    \/ ScanDone
    \/ UnloadNotIn
    \/ Recv
    \/ Rescan

SpecDiscover == InitDiscover /\ [][NextDiscover]_vars

----------------------------------------------------------------------------
(* Claims on discovery *)

\* C11: a failure met in one plugin folder (a manifest that does not parse, a
\* missing library, module or binary, a library or module that does not load)
\* never ends the watcher: the scan goes on to the other folders, to the
\* unload step and back to waiting for events.
C11_DiscoveryFailureNeverAbortsScan == watcher.pc # "dead"

----------------------------------------------------------------------------
(* Claims on the answers and the metrics of /execute *)

\* C12: an execute answers 404 only when the name was found neither at the
\* caller's scope nor globally, and a non-2xx answer of an HTTP backend is
\* reported as 502 or 504 whatever status the backend sent.
C12_ErrorStatusMapping ==
    \A c \in Callers :
        (req[c].op = "execute" /\ req[c].pc = "respond")
            => /\ req[c].status = 404 => req[c].tool = None
               /\ req[c].body = "plugin returned status" => req[c].status \in {502, 504}

\* C13: every completed execute, whatever its outcome and its backend, has
\* incremented exactly one counter, labelled with its outcome, and recorded
\* exactly one latency observation.
C13_EveryInvocationObserved ==
    \A c \in Callers :
        (req[c].op = "execute" /\ req[c].pc = "respond")
            => /\ Len(req[c].counted) = 1
               /\ req[c].timed = 1
               /\ req[c].counted[1] = IF req[c].tool = None THEN "not_found"
                                      ELSE IF req[c].status = 200 THEN "success"
                                      ELSE "error"

----------------------------------------------------------------------------
(* GET /tools/:twin_id next to registrations *)

\* the orders in which HashMap::values() can yield the tools of a scope
ValueOrders(m) ==
    LET n == Cardinality(DOMAIN m)
        orders == {f \in [1..n -> DOMAIN m] : \A i \in 1..n, j \in 1..n : f[i] = f[j] => i = j}
    IN  {[i \in 1..n |-> m[f[i]]] : f \in orders}

\* a list where a tool of the twin's scope hides the global tool of its name
list_tools_for_twin_Override(reg, twin_uuid) ==
    LET scoped == GetOr(reg, twin_uuid, EmptyMap)
        global == GetOr(reg, Nil, EmptyMap)
        rest == [n \in DOMAIN global \ DOMAIN scoped |-> global[n]]
    IN  {t \o g : t \in ValueOrders(scoped), g \in ValueOrders(rest)}

\* list_tools_for_twin: the tools of the twin's scope, then the global tools
list_tools_for_twin(reg, twin_uuid) ==
    {t \o g : t \in ValueOrders(GetOr(reg, twin_uuid, EmptyMap)),
              g \in ValueOrders(GetOr(reg, Nil, EmptyMap))}

\* GET /tools/:twin_id, answered under the read lock
ListToolsForTwin(c, twins) ==
    /\ req[c].pc = "idle"
    /\ FreeWorker
    /\ \E twin_uuid \in twins :
        \E tools \in list_tools_for_twin(registry, twin_uuid) :
            req' = [req EXCEPT ![c] =
                       Answer([IdleReq EXCEPT !.op = "list", !.twin = twin_uuid,
                                              !.listed = tools], 200, "tools")]
    /\ UNCHANGED <<registry, redis, loaded_libs, lib_mutex, fs, chan, watcher, env, children, main, engine>>

NextList ==
    \E c \in Callers :
        \/ RegisterTool(c, RegScopes, HttpTools)
        \/ UpsertPersist(c, {TRUE})
        \/ ListToolsForTwin(c, Uuids)
        \/ Respond(c)

SpecList == Init /\ [][NextList]_vars

\* the positions of a list result that hold a tool of this name
Named(tools, name) == {i \in DOMAIN tools : tools[i].name = name}

\* C14: for a name N registered at scope S, the global scope included, and at
\* no other scope, list(S) has exactly one entry named N, and it is the
\* definition last written at (S, N).
C14_UpsertIdempotence ==
    [][\A c \in Callers :
          (req[c].pc = "idle" /\ req'[c].op = "list")
              => \A n \in Names :
                    LET S == req'[c].twin
                        tools == req'[c].listed
                    IN  (/\ Entry(registry, S, n) # None
                         /\ \A S2 \in Uuids \ {S} : Entry(registry, S2, n) = None)
                            => /\ Cardinality(Named(tools, n)) = 1
                               /\ \A i \in Named(tools, n) :
                                      Some(tools[i]) = Entry(registry, S, n)]_vars

----------------------------------------------------------------------------
(* The gateway restarted on its store *)

\* the process is stopped and main() runs again: whatever was in flight is
\* gone and the registry is what load_all_tools reads from Redis
Restart ==
    /\ registry' = load_all_tools(redis)
    /\ req' = [c \in Callers |-> IdleReq]
    /\ loaded_libs' = {}
    /\ lib_mutex' = [owner |-> None, poisoned |-> FALSE]
    /\ chan' = 0
    /\ watcher' = IF watcher.pc = "off" THEN WatcherOff ELSE WatcherOn
    /\ UNCHANGED <<redis, fs, env, children, main, engine>>

\* registrations while Redis answers every write, and restarts
NextRestart ==
    \/ Restart
    \/ \E c \in Callers :
        \/ RegisterTool(c, RegScopes, HttpTools)
        \/ UpsertPersist(c, {TRUE})
        \/ Respond(c)

SpecRestart == Init /\ [][NextRestart]_vars

\* C15: a restart made when every upsert has returned success leaves, for
\* every scope that had entries, the list result it had before the restart.
C15_RehydrationRoundTrip ==
    [][(Restart /\ \A c \in Callers : ~UpsertInFlight(c))
          => \A S \in DOMAIN registry :
                list_tools_for_twin(registry', S) = list_tools_for_twin(registry, S)]_vars

----------------------------------------------------------------------------
(* Claims on an execute that finds no tool *)

\* C16: an execute from scope S of a name registered neither at S nor at the
\* global scope answers 404, is handed to no executor and changes neither the
\* registry nor the store, also when another scope holds the name.
C16_NotFound ==
    [][\A c \in Callers :
          (/\ req[c].pc = "idle" /\ req'[c].op = "execute"
           /\ Entry(registry, req'[c].twin, req'[c].name) = None
           /\ Entry(registry, Nil, req'[c].name) = None)
              => /\ req'[c].pc = "respond" /\ req'[c].status = 404
                 /\ req'[c].tool = None /\ req'[c].backend = "none"
                 /\ registry' = registry /\ redis' = redis]_vars

\* an execute of n1 from t2 was answered 404 while t1, and not the global
\* scope, holds n1
C16_Witness ==
    \E c \in Callers :
        /\ req[c].op = "execute" /\ req[c].pc = "respond" /\ req[c].status = 404
        /\ req[c].twin = "t2" /\ req[c].name = "n1"
        /\ Entry(registry, "t1", "n1") # None
        /\ Entry(registry, Nil, "n1") = None

----------------------------------------------------------------------------
(* The watcher under each signature mode *)

MANIFEST_BIN == Manifest("binary", Some(BINARY_X), None, << >>)

\* what can stand next to a manifest: no signature file, one cosign accepts,
\* one it rejects
Verdicts == {"absent", "accepted", "rejected"}

\* the manifests that come and go in each folder, signed or not
SignedManifests(p) ==
    IF p = "p1" THEN {Signed(MANIFEST_CFG, v) : v \in Verdicts}
    ELSE {Signed(m, v) : m \in {MANIFEST_A, MANIFEST_BIN}, v \in Verdicts}

\* PAGI_PLUGIN_VERIFY_SIGNATURES and PAGI_PLUGIN_COSIGN_PUBKEY, set or not
SignedEnvs == {[DefaultEnv EXCEPT !.sig_mode = mode, !.pubkey = key] :
                  mode \in {"off", "best_effort", "strict"}, key \in BOOLEAN}

InitSigned == \E e \in SignedEnvs : InitEnv(EmptyMap, EmptyDir, WatcherOn, e)

NextSigned ==
    \/ \E p \in Plugins : AddManifest(p, SignedManifests(p))
    \/ \E p \in Plugins : RemoveManifest(p)
    \/ InitialScan
    \/ \E p \in Plugins : ScanFolder(p)
    \/ RegisterToolsLock
    \/ RegisterToolsReturn(ToolsPtrs)
    \/ SpawnSleepDone
    \/ \E i \in 1..MaxChildren : ChildPreExec(i)
    \/ \E i \in 1..MaxChildren : ChildExit(i)
    \/ WatcherUpsert
    \/ WatcherPersist({TRUE})
    \/ ScanDone
    \/ UnloadNotIn
    \/ Recv
    \/ Rescan

SpecSigned == InitSigned /\ [][NextSigned]_vars

----------------------------------------------------------------------------
(* Claims on signature verification *)

\* C17: in strict mode, the scan of a folder whose manifest has no signature
\* file, or one the verifier did not accept, or for which no key is
\* configured, has no effect: no tool is taken for upsert, no library or module
\* is loaded or kept, no child is spawned, and the registry is unchanged.
C17_StrictSignatureGate ==
    [][\A p \in Plugins :
          (/\ watcher.pc = "scan" /\ p \in watcher.todo /\ p \notin watcher'.todo
           /\ env.sig_mode = "strict"
           /\ fs[p] # NoManifest
           /\ ~(env.pubkey /\ fs[p][1].sig = "accepted"))
              => /\ watcher'.pc = "scan" /\ watcher'.tools = << >>
                 /\ watcher'.keep_libs = watcher.keep_libs
                 /\ children' = children
                 /\ registry' = registry /\ loaded_libs' = loaded_libs]_vars

\* in strict mode with a key, a rescan has completed over a manifest with a
\* rejected signature and one with an accepted signature: only the tools of
\* the second are registered
C17_Witness ==
    /\ env.sig_mode = "strict" /\ env.pubkey
    /\ fs["p1"] = Some(Signed(MANIFEST_CFG, "rejected"))
    /\ fs["p2"] = Some(Signed(MANIFEST_A, "accepted"))
    /\ watcher.pc = "idle" /\ ~watcher.initial /\ chan = 0
    /\ Entry(registry, Nil, "n1") # None
    /\ Entry(registry, Nil, "n3") = None

\* PAGI_PLUGIN_VERIFY_SIGNATURES=strict and no PAGI_PLUGIN_COSIGN_PUBKEY
StrictNoKey == [DefaultEnv EXCEPT !.sig_mode = "strict"]

InitStrictNoKey ==
    InitEnv(EmptyMap, [EmptyDir EXCEPT !["p1"] = Some(MANIFEST_CFG)], WatcherOn, StrictNoKey)

\* the gateway started with that environment: the watcher scans, and the
\* routes of main() are served
NextStrictNoKey ==
    \/ \E p \in Plugins : AddManifest(p, SignedManifests(p))
    \/ \E p \in Plugins : RemoveManifest(p)
    \/ InitialScan
    \/ \E p \in Plugins : ScanFolder(p)
    \/ ScanDone
    \/ UnloadNotIn
    \/ Recv
    \/ Rescan
    \/ \E c \in Callers :
        \/ RegisterTool(c, {Nil}, {ToolSchema("n1", HTTP_H1, "/e")})
        \/ UpsertPersist(c, {TRUE})
        \/ ExecuteTool(c, {"t1"}, {"n1"})
        \/ HttpReturn(c, {o \in HttpOutcomes : o.kind = "response" /\ o.status = 200})
        \/ Respond(c)

SpecStrictNoKey == InitStrictNoKey /\ [][NextStrictNoKey]_vars

\* C18: when strict verification is requested and no verification key is
\* configured, the gateway does not start: no request is ever served.
C18_StrictWithoutKeyIsFatal ==
    (env.sig_mode = "strict" /\ ~env.pubkey) => \A c \in Callers : req[c].pc = "idle"

----------------------------------------------------------------------------
(* The watcher over Binary plugins, with PAGI_PLUGIN_SECCOMP=true *)

SeccompEnv == [DefaultEnv EXCEPT !.seccomp = TRUE]

InitSpawn ==
    InitEnv(EmptyMap, [EmptyDir EXCEPT !["p1"] = Some(MANIFEST_BIN)], WatcherOn, SeccompEnv)

NextSpawn ==
    \/ \E p \in Plugins : AddManifest(p, {MANIFEST_BIN, MANIFEST_NOBIN})
    \/ \E p \in Plugins : RemoveManifest(p)
    \/ InitialScan
    \/ \E p \in Plugins : ScanFolder(p)
    \/ SpawnSleepDone
    \/ \E i \in 1..MaxChildren : ChildPreExec(i)
    \/ \E i \in 1..MaxChildren : ChildExit(i)
    \/ ScanDone
    \/ UnloadNotIn
    \/ Recv
    \/ Rescan

SpecSpawn == InitSpawn /\ [][NextSpawn]_vars

\* C19: with the sandbox enabled, a child that executes the plugin binary has
\* no-new-privileges set and the filter loaded with every deny rule added: a
\* child in which a step of the installation failed does not execute.
C19_SandboxBeforeExecOrNoExec ==
    env.seccomp
        => \A i \in DOMAIN children :
               children[i].pc = "exec"
                   => /\ children[i].nnp
                      /\ children[i].loaded
                      /\ children[i].failed_rules = {}

----------------------------------------------------------------------------
(* Claims on the debounce loop *)

\* the positions of the watcher inside scan_and_register_plugins
ScanPcs == {"scan", "reg_lock", "reg_call", "wasm_reg", "spawn_sleep", "upsert",
            "persist", "unload"}

----------------------------------------------------------------------------
(* Claims on the watcher loop *)

\* C21: one scan at a time. While a scan cycle runs (the initial one
\* included) the watcher goes on with the folders it has left or ends the
\* cycle; it never starts over. No event is taken out of the channel while a
\* scan runs, and an event that arrives leaves the running scan as it is: the
\* event waits in the channel for a later debounce window.
C21_SingleInFlightRescan ==
    [][watcher.pc \in ScanPcs =>
          /\ watcher'.pc \in ScanPcs \cup {"idle", "dead"}
          /\ watcher'.pc \in ScanPcs => watcher'.todo \subseteq watcher.todo
          /\ chan' >= chan
          /\ chan' > chan => watcher' = watcher]_vars

\* a rescan is on its way through the folders and an event that arrived
\* meanwhile waits in the channel
C21_Witness ==
    watcher.pc \in ScanPcs /\ ~watcher.initial /\ chan > 0 /\ watcher.todo # Plugins

\* the manifests dropped into each folder while the watcher runs; every
\* library they name loads, so no scan panics
Arriving(p) == IF p = "p1" THEN {MANIFEST_A} ELSE {MANIFEST_CFG}

InitWatch == InitWith(EmptyMap, EmptyDir, WatcherOn)

\* one step of the watcher: the initial scan, or the task spawned by
\* spawn_plugin_watcher going through recv, sleep, drain and scan
WatcherStep ==
    \/ InitialScan
    \/ \E p \in Plugins : ScanFolder(p)
    \/ RegisterToolsLock
    \/ RegisterToolsReturn(ToolsPtrs)
    \/ WatcherUpsert
    \/ WatcherPersist(BOOLEAN)
    \/ ScanDone
    \/ UnloadNotIn
    \/ Recv
    \/ Rescan

NextWatch ==
    \/ \E p \in Plugins : AddManifest(p, Arriving(p))
    \/ \E p \in Plugins : RemoveManifest(p)
    \/ WatcherStep

\* the runtime runs a task that is ready, a sleep ends and every scan
\* terminates; nothing obliges the directory to change
SpecWatchFair == InitWatch /\ [][NextWatch]_vars /\ WF_vars(WatcherStep)

\* C22: the watcher keeps reacting. A manifest that is put into a folder and
\* stays there is eventually scanned: its tool is eventually in the registry,
\* whenever the change came (during the initial scan after the folder was
\* read, before the watch was installed, during a debounce sleep or a scan).
C22_WatcherKeepsReacting ==
    <>[](fs["p2"] = Some(MANIFEST_CFG)) => <>(Entry(registry, Nil, "n3") # None)

----------------------------------------------------------------------------
(* Claims on discovery *)

\* the plugin directories that stay as they are: each folder is empty or
\* holds one manifest
FixedDirs ==
    {[p \in Plugins |-> IF p = "p1" THEN a ELSE b] :
        a \in {NoManifest, Some(MANIFEST_A), Some(MANIFEST_B)},
        b \in {NoManifest, Some(MANIFEST_CFG), Some(MANIFEST_COMPONENT)}}

InitIdem == \E dir \in FixedDirs : InitWith(EmptyMap, dir, WatcherOn)

\* scans of a directory nobody changes: files are only written again as they
\* were, every library hands its tools back and Redis answers every write
NextIdem ==
    \/ \E p \in Plugins : Touch(p)
    \/ InitialScan
    \/ \E p \in Plugins : ScanFolder(p)
    \/ RegisterToolsLock
    \/ RegisterToolsReturn({"array"})
    \/ WatcherUpsert
    \/ WatcherPersist({TRUE})
    \/ ScanDone
    \/ UnloadNotIn
    \/ Recv
    \/ Rescan

SpecIdem == InitIdem /\ [][NextIdem]_vars

\* C23: discovery idempotence. Once the initial scan of a directory is over,
\* no step of a later scan of the same, unchanged directory changes the
\* registry: every upsert of a rescan puts back the definition that is
\* already there under the same (scope, name), and adds no entry.
C23_DiscoveryIdempotence ==
    [][~watcher.initial => registry' = registry]_vars

\* a rescan has just upserted the tool of the manifest in folder p2 again
C23_Witness ==
    /\ ~watcher.initial
    /\ watcher.pc = "persist"
    /\ Head(watcher.tools).name \in {"n3", "n5"}
    /\ Entry(registry, Nil, Head(watcher.tools).name) = Some(Head(watcher.tools))

\* PAGI_PLUGIN_VERIFY_SIGNATURES=strict with a public key
StrictEnv == [DefaultEnv EXCEPT !.sig_mode = "strict", !.pubkey = TRUE]

\* the manifests of the two libraries: as they are, unparsable, or signed
LibManifests(p) ==
    IF p = "p1" THEN {MANIFEST_A, Garbled(MANIFEST_A)}
    ELSE {MANIFEST_B, Signed(MANIFEST_B, "accepted")}

InitUnload ==
    \E e \in {DefaultEnv, StrictEnv} : InitEnv(LibStore, EmptyDir, WatcherOn, e)

\* the watcher next to clients that execute the tools of the libraries; the
\* directory changes between the scans, so that what a scan read is what the
\* directory holds when the scan completes
NextUnload ==
    \/ watcher.pc \notin ScanPcs /\ \E p \in Plugins : AddManifest(p, LibManifests(p))
    \/ watcher.pc \notin ScanPcs /\ \E p \in Plugins : RemoveManifest(p)
    \/ InitialScan
    \/ \E p \in Plugins : ScanFolder(p)
    \/ RegisterToolsLock
    \/ RegisterToolsReturn(ToolsPtrs)
    \/ WatcherUpsert
    \/ WatcherPersist({TRUE})
    \/ ScanDone
    \/ UnloadNotIn
    \/ Recv
    \/ Rescan
    \/ \E c \in Callers :
        \/ ExecuteTool(c, {"t1"}, {"n1", "n2"})
        \/ LibLock(c)
        \/ LibReturn(c)
        \/ LibFreeReturn(c)
        \/ Respond(c)

SpecUnload == InitUnload /\ [][NextUnload]_vars

\* the SharedLib manifests in the directory whose lib_path is the library
ManifestsOf(lib) ==
    {fs[p][1] : p \in {q \in Plugins :
        /\ fs[q] # NoManifest
        /\ fs[q][1].toml_ok
        /\ fs[q][1].plugin_type = "shared_lib"
        /\ fs[q][1].lib_path # None
        /\ canonicalize(fs[q][1].lib_path[1]) = Some(lib)}}

\* a scan cycle completes: unload_not_in returns
ScanCompletes == watcher.pc = "unload" /\ watcher'.pc = "idle"

----------------------------------------------------------------------------
(* main.rs: startup *)

\* a connection before the listener is bound: no handler runs
Unbound == [IdleReq EXCEPT !.pc = "unbound"]

\* where load_all_tools can return a RedisError: the connection, HKEYS and
\* HGET of the global hash, KEYS twin:tools:*, HKEYS and HGET of a twin's hash
LoadFailures == {"connect", "hkeys_global", "hget_global", "keys", "hkeys_twin", "hget_twin"}

\* what the local registry of load_all_tools holds when the first call of
\* that kind fails: nothing, or the global tools
ReadBefore(store, failure) ==
    IF failure \in {"connect", "hkeys_global", "hget_global"} THEN EmptyMap
    ELSE [u \in DOMAIN load_all_tools(store) \cap {Nil} |-> load_all_tools(store)[u]]

\* the Result of load_all_tools: Ok(registry), or the Err that `?` returns,
\* with which the entries read so far are dropped
LoadAttempt(store, outcome) ==
    IF outcome = "ok" THEN [ok |-> TRUE, registry |-> load_all_tools(store)]
    ELSE [ok |-> FALSE, registry |-> ReadBefore(store, outcome)]

\* a start that keeps what was read before the error
unwrap_or_default_KeepRead(result) == result.registry

\* Result::unwrap_or_default: the value of Ok, the empty map for Err
unwrap_or_default(result) == IF result.ok THEN result.registry ELSE EmptyMap

\* load_all_tools(&redis_client).await.unwrap_or_default(): the registry is
\* what the store holds, or empty when a call to Redis fails
Rehydrate(outcomes) ==
    /\ main = "load"
    /\ \E outcome \in outcomes :
        registry' = unwrap_or_default(LoadAttempt(redis, outcome))
    /\ main' = "spawn"
    /\ UNCHANGED <<redis, req, loaded_libs, lib_mutex, fs, chan, watcher, env, children, engine>>

\* a main() that spawns the watcher task before the registry is loaded
SpawnWatcher_BeforeLoad(autos) ==
    /\ main \in {"load", "spawn"}
    /\ watcher.pc = "off"
    /\ \E auto \in autos : watcher' = IF auto THEN WatcherOn ELSE WatcherOff
    /\ main' = IF main = "spawn" THEN "bind" ELSE main
    /\ UNCHANGED <<registry, redis, req, loaded_libs, lib_mutex, fs, chan, env, children, engine>>

\* AUTO_DISCOVER_PLUGINS=true: main() spawns the task that runs
\* spawn_plugin_watcher; otherwise there is no watcher
SpawnWatcher(autos) ==
    /\ main = "spawn"
    /\ \E auto \in autos : watcher' = IF auto THEN WatcherOn ELSE WatcherOff
    /\ main' = "bind"
    /\ UNCHANGED <<registry, redis, req, loaded_libs, lib_mutex, fs, chan, env, children, engine>>

\* TcpListener::bind and axum::serve: the routes answer from here on; when
\* bind fails main() returns and the process ends with its tasks
Serve ==
    /\ main = "bind"
    /\ \E bound \in BOOLEAN :
        IF bound
        THEN /\ req' = [c \in Callers |-> IdleReq]
             /\ main' = "serving"
             /\ UNCHANGED <<watcher, chan, lib_mutex>>
        ELSE /\ main' = "exited"
             /\ watcher' = WatcherOff
             /\ chan' = 0
             /\ lib_mutex' = [owner |-> None, poisoned |-> FALSE]
             /\ UNCHANGED req
    /\ UNCHANGED <<registry, redis, loaded_libs, fs, env, children, engine>>

\* a store that holds one tool globally and one at scope t1
BootStore ==
    persist_tool(persist_tool(EmptyMap, None, ToolSchema("n1", HTTP_H1, "/e")),
                 Some("t1"), ToolSchema("n2", HTTP_H2, "/e"))

\* the process starts: nothing is loaded, no task runs, no route answers
InitStartup ==
    /\ redis = BootStore
    /\ registry = EmptyMap
    /\ req = [c \in Callers |-> Unbound]
    /\ loaded_libs = {}
    /\ lib_mutex = [owner |-> None, poisoned |-> FALSE]
    /\ fs = [EmptyDir EXCEPT !["p2"] = Some(MANIFEST_CFG)]
    /\ chan = 0
    /\ watcher = WatcherOff
    /\ env = DefaultEnv
    /\ children = << >>
    /\ main = "load"
    /\ engine = IdleEngine

NextStartup ==
    \/ Rehydrate({"ok", "connect"})
    \/ SpawnWatcher(BOOLEAN)
    \/ Serve
    \/ InitialScan
    \/ \E p \in Plugins : ScanFolder(p)
    \/ WatcherUpsert
    \/ WatcherPersist(BOOLEAN)
    \/ ScanDone
    \/ UnloadNotIn
    \/ \E c \in Callers :
        \/ RegisterTool(c, {"t1"}, HttpTools)
        \/ UpsertPersist(c, BOOLEAN)
        \/ Respond(c)

SpecStartup == InitStartup /\ [][NextStartup]_vars

\* C25: startup ordering. As long as main() has not finished loading the
\* registry from the store, the watcher task does not exist, no route
\* answers, and neither the registry nor the store has been written: the
\* initial scan and every upsert come after rehydration.
C25_StartupOrdering ==
    main = "load" =>
        /\ watcher.pc = "off"
        /\ \A c \in Callers : req[c].pc = "unbound"
        /\ registry = EmptyMap
        /\ redis = BootStore

\* the registry holds what the store held, the initial scan is upserting the
\* tool of a manifest and a client's registration is in flight
C25_Witness ==
    /\ main = "serving"
    /\ watcher.initial /\ watcher.pc = "persist"
    /\ \E c \in Callers : req[c].pc = "persist"
    /\ Entry(registry, "t1", "n2") = Some(ToolSchema("n2", HTTP_H2, "/e"))

----------------------------------------------------------------------------
(* Claims on the handle table *)

MANIFEST_LINK == Manifest("shared_lib", Some(LIB_A_LINK), None, << >>)

\* a store where n1 is located by the path of the library and n2 by the
\* link to it
AliasStore ==
    persist_tool(persist_tool(EmptyMap, None, ToolSchema("n1", SHAREDLIB_SCHEME \o LIB_A, "run")),
                 None, ToolSchema("n2", SHAREDLIB_SCHEME \o LIB_A_LINK, "run"))

InitAlias ==
    InitWith(AliasStore, [EmptyDir EXCEPT !["p1"] = Some(MANIFEST_LINK)], WatcherOn)

\* clients execute both tools while the watcher registers the library from
\* manifests that name it by its path or by the link
NextAlias ==
    \/ \E p \in Plugins : AddManifest(p, {MANIFEST_LINK, MANIFEST_A})
    \/ \E p \in Plugins : RemoveManifest(p)
    \/ InitialScan
    \/ \E p \in Plugins : ScanFolder(p)
    \/ RegisterToolsLock
    \/ RegisterToolsReturn(ToolsPtrs)
    \/ WatcherUpsert
    \/ WatcherPersist({TRUE})
    \/ ScanDone
    \/ UnloadNotIn
    \/ Recv
    \/ Rescan
    \/ \E c \in Callers :
        \/ ExecuteTool(c, {"t1"}, {"n1", "n2"})
        \/ LibLock(c)
        \/ LibReturn(c)
        \/ LibFreeReturn(c)
        \/ Respond(c)

SpecAlias == InitAlias /\ [][NextAlias]_vars

\* C26: one handle per library. In every state the handle table holds at
\* most one key that leads to a given library file, whatever path the first
\* calls came by, and every key is the canonical path of its library: calls
\* that reach the library by its path and by a link to it share one handle.
C26_OneHandlePerLibrary ==
    /\ \A lib \in Files : Cardinality({k \in loaded_libs : Target(k) = lib}) <= 1
    /\ \A k \in loaded_libs : canonicalize(k) = Some(k)

\* a first call that came by the link is inside the library, which is
\* loaded once, while a call that came by the path waits for the mutex
C26_Witness ==
    /\ loaded_libs = {LIB_A}
    /\ \E c, d \in Callers :
        /\ req[c].pc = "lib_call"
        /\ BackendPath(req[c].tool[1]) = LIB_A_LINK
        /\ req[d].pc = "lib_lock"
        /\ BackendPath(req[d].tool[1]) = LIB_A

----------------------------------------------------------------------------
(* Claims on the legacy WebAssembly executor *)

\* the limbs the packed return values are made of: zero, one, the largest
\* positive and the two ends of the negative half
LimbValues == {0, 1, SIGN - 1, SIGN, LIMB - 1}

\* the 64-bit values a tool function returns
PackedValues == [1..4 -> LimbValues]

\* a store that holds one tool of the wasm module
DecodeStore == persist_tool(EmptyMap, None, ToolSchema("n4", WASM_SCHEME \o WASM_M, "run"))

InitDecode == InitWith(DecodeStore, EmptyDir, WatcherOff)

\* one client executes the tool; the guest traps or returns any of the values
NextDecode ==
    \E c \in {1} :
        \/ ExecuteTool(c, {Nil}, {"n4"})
        \/ WasmReturn(c, {8}, {Trap} \cup {Returned(v) : v \in PackedValues})
        \/ Respond(c)

SpecDecode == InitDecode /\ [][NextDecode]_vars

\* the 32 bits with limbs hi and lo, read as a signed integer, are positive
Positive(hi, lo) == hi < SIGN /\ (hi > 0 \/ lo > 0)

\* the requests answered after the tool function returned a value
Decoded == {c \in Callers : req[c].pc = "respond" /\ req[c].ret # None}

----------------------------------------------------------------------------
(* Claims on the HTTP surface *)

\* the definitions registered at a scope
RegisteredAt(reg, scope) ==
    {GetOr(reg, scope, EmptyMap)[n] : n \in DOMAIN GetOr(reg, scope, EmptyMap)}

\* C28: when GET /tools/S is answered, the list holds every definition
\* registered at S and every definition registered globally, one entry for
\* each of the two when a name is registered at S and globally, and no
\* definition that is registered neither at S nor globally.
C28_ListConfinement ==
    [][\A c \in Callers :
          (req[c].pc = "idle" /\ req'[c].pc = "respond" /\ req'[c].op = "list") =>
              LET S == req'[c].twin
                  L == req'[c].listed
              IN  /\ \A t \in RegisteredAt(registry, S) \cup RegisteredAt(registry, Nil) :
                         \E i \in DOMAIN L : L[i] = t
                  /\ \A n \in DOMAIN GetOr(registry, S, EmptyMap) :
                         n \in DOMAIN GetOr(registry, Nil, EmptyMap) =>
                             /\ Cardinality(Named(L, n)) = 2
                             /\ \E i, j \in Named(L, n) :
                                   /\ i # j
                                   /\ L[i] = registry[S][n]
                                   /\ L[j] = registry[Nil][n]
                  /\ \A i \in DOMAIN L :
                         L[i] \in RegisteredAt(registry, S) \cup RegisteredAt(registry, Nil)]_vars

\* GET /tools/t1 was answered with the definition of n1 at t1 and the
\* different global definition of n1
C28_Witness ==
    \E c \in Callers :
        /\ req[c].pc = "respond" /\ req[c].op = "list" /\ req[c].twin = "t1"
        /\ Len(req[c].listed) = 2
        /\ req[c].listed[1] # req[c].listed[2]

\* the bodies a backend sends: JSON, and bytes that are no UTF-8
Bodies == {JSON_BODY, <<123, 255, 125>>, <<255>>}

\* every way the round trip ends, with every body
PassThroughOutcomes ==
    HttpOutcomes \cup
    {[kind |-> "response", status |-> st, body |-> b] : st \in {200, 204, 404}, b \in Bodies}

\* a store that holds one HTTP tool
HttpStore == persist_tool(EmptyMap, None, ToolSchema("n1", HTTP_H1, "/e"))

InitPassThrough == InitWith(HttpStore, EmptyDir, WatcherOff)

NextPassThrough ==
    \E c \in Callers :
        \/ ExecuteTool(c, {Nil, "t1"}, {"n1"})
        \/ HttpReturn(c, PassThroughOutcomes)
        \/ Respond(c)

SpecPassThrough == InitPassThrough /\ [][NextPassThrough]_vars

\* C29: an execute routed to the HTTP executor is answered with success
\* exactly when the backend's response had a 2xx status, and then the body of
\* the answer is the body of the response, byte for byte; when the request
\* could not be sent the answer is 502, never a success and never 404.
C29_HttpPassThrough ==
    \A c \in Callers :
        (req[c].pc = "respond" /\ req[c].backend = "http" /\ req[c].ret # None) =>
            LET o == req[c].ret[1]
            IN  /\ o.kind = "response" =>
                    (req[c].status = 200 <=> (o.status >= 200 /\ o.status < 300))
                /\ req[c].status = 200 =>
                    (o.kind = "response" /\ req[c].bytes = Some(o.body))
                /\ o.kind \in {"timeout", "connect"} => req[c].status = 502

\* a store that holds one tool of the component
ComponentStore ==
    persist_tool(EmptyMap, None, ToolSchema("n5", WASM_COMPONENT_SCHEME \o COMPONENT_K, "run"))

InitComponent == InitWith(ComponentStore, EmptyDir, WatcherOff)

NextComponent ==
    \E c \in Callers :
        \/ ExecuteTool(c, Uuids, {"n5"})
        \/ ComponentReturn(c, ComponentOutcomes)
        \/ Respond(c)

SpecComponent == InitComponent /\ [][NextComponent]_vars

\* the requests answered after the component's execute ended
ComponentAnswered ==
    {c \in Callers : req[c].pc = "respond" /\ req[c].backend = "component" /\ req[c].ret # None}

\* C30: the success variant of the component's execute is the tool result;
\* the error variant and a trap are both errors, and the answer to a returned
\* error differs from the answer to a trap in its status or its error code.
C30_ComponentOutcomeMapping ==
    /\ \A c \in ComponentAnswered :
          IF req[c].ret[1].kind = "ok"
          THEN req[c].status = 200 /\ req[c].body = req[c].ret[1].msg
          ELSE req[c].status # 200
    /\ \A c, d \in ComponentAnswered :
          (req[c].ret[1].kind = "err" /\ req[d].ret[1].kind = "trap") =>
              <<req[c].status, req[c].body>> # <<req[d].status, req[d].body>>

----------------------------------------------------------------------------
(* The watcher over manifests whose module is not in the plugin folder *)

\* a Wasm and a ComponentWasm manifest whose declared file is not there
MANIFEST_WASM_GONE == Manifest("wasm", Some(LIB_MISSING), None, << >>)
MANIFEST_COMPONENT_GONE ==
    Manifest("component_wasm", Some(LIB_MISSING), None, <<[name |-> "n5", endpoint |-> "run"]>>)

\* the manifests that come and go in each folder
Absent(p) ==
    IF p = "p1" THEN {MANIFEST_GONE, MANIFEST_WASM_GONE, MANIFEST_A}
    ELSE {MANIFEST_COMPONENT_GONE, MANIFEST_COMPONENT, MANIFEST_WASM}

InitMissing == InitWith(EmptyMap, [EmptyDir EXCEPT !["p1"] = Some(MANIFEST_GONE)], WatcherOn)

NextMissing ==
    \/ \E p \in Plugins : AddManifest(p, Absent(p))
    \/ \E p \in Plugins : RemoveManifest(p)
    \/ InitialScan
    \/ \E p \in Plugins : ScanFolder(p)
    \/ RegisterToolsLock
    \/ RegisterToolsReturn({"array"})
    \/ WasmRegisterReturn
    \/ WatcherUpsert
    \/ WatcherPersist({TRUE})
    \/ ScanDone
    \/ UnloadNotIn
    \/ Recv
    \/ Rescan

SpecMissing == InitMissing /\ [][NextMissing]_vars

\* the module path a manifest of a module type declares
ModulePath(m) ==
    IF m.plugin_type = "shared_lib" THEN m.lib_path
    ELSE IF m.plugin_type = "wasm" THEN m.wasm_path
    ELSE IF m.plugin_type = "component_wasm" THEN m.wasm_component_path
    ELSE None

\* folder p holds a SharedLib, Wasm or ComponentWasm manifest whose declared
\* file does not exist
MissingModule(p) ==
    /\ fs[p] # NoManifest
    /\ ModulePath(fs[p][1]) # None
    /\ ModulePath(fs[p][1])[1] \notin Files

\* C31: a SharedLib, Wasm or ComponentWasm manifest whose declared path does
\* not exist is skipped without a panic: the scan goes on to the next folder
\* with no tool to upsert for it, and the registry, the store, the table of
\* loaded libraries and its mutex are as they were.
C31_MissingModuleIsSkip ==
    [][\A p \in Plugins :
          (ScanFolder(p) /\ MissingModule(p))
              => /\ watcher'.pc = "scan"
                 /\ watcher'.tools = << >>
                 /\ watcher'.keep_libs = watcher.keep_libs
                 /\ registry' = registry
                 /\ redis' = redis
                 /\ loaded_libs' = loaded_libs
                 /\ lib_mutex' = lib_mutex]_vars

\* a rescan has passed a folder whose Wasm module is missing, after an earlier
\* scan registered the tool of a library
C31_Witness ==
    /\ watcher.pc = "scan"
    /\ ~watcher.initial
    /\ "p1" \notin watcher.todo
    /\ fs["p1"] = Some(MANIFEST_WASM_GONE)
    /\ Entry(registry, Nil, "n1") # None

----------------------------------------------------------------------------
(* The watcher registers modules of the three kinds while a client executes *)

\* the manifests that come and go in each folder
Modules(p) ==
    IF p = "p1" THEN {MANIFEST_A, MANIFEST_LINK, MANIFEST_WASM} ELSE {MANIFEST_COMPONENT}

InitAgree == InitWith(EmptyMap, [EmptyDir EXCEPT !["p1"] = Some(MANIFEST_LINK)], WatcherOn)

NextAgree ==
    \/ \E p \in Plugins : AddManifest(p, Modules(p))
    \/ \E p \in Plugins : RemoveManifest(p)
    \/ InitialScan
    \/ \E p \in Plugins : ScanFolder(p)
    \/ RegisterToolsLock
    \/ RegisterToolsReturn({"array"})
    \/ WasmRegisterReturn
    \/ WatcherUpsert
    \/ WatcherPersist({TRUE})
    \/ ScanDone
    \/ UnloadNotIn
    \/ Recv
    \/ Rescan
    \/ \E c \in {1} :
        \/ ExecuteTool(c, {"t1"}, {"n1", "n4", "n5"})
        \/ LibLock(c)
        \/ LibReturn(c)
        \/ LibFreeReturn(c)
        \/ WasmReturn(c, {8}, {Returned(<<0, 1, 0, 1>>)})
        \/ ComponentReturn(c, {o \in ComponentOutcomes : o.kind = "ok" /\ o.msg = "out"})
        \/ Respond(c)

SpecAgree == InitAgree /\ [][NextAgree]_vars

\* the locator scheme the watcher gives the tools of a manifest type, and the
\* executor execute_tool has for the type
SchemeOf(type) ==
    IF type = "shared_lib" THEN SHAREDLIB_SCHEME
    ELSE IF type = "wasm" THEN WASM_SCHEME
    ELSE WASM_COMPONENT_SCHEME

ExecutorOf(type) ==
    IF type = "shared_lib" THEN "sharedlib"
    ELSE IF type = "wasm" THEN "wasm"
    ELSE "component"

\* the manifests of this directory, and the canonical path of a manifest's module
AllModules == UNION {Modules(p) : p \in Plugins}

Canonical(m) == canonicalize(ModulePath(m)[1])

\* the manifest makes the watcher register a tool of this name
Declares(m, n) ==
    IF m.plugin_type = "component_wasm"
    THEN \E i \in DOMAIN m.tools : m.tools[i].name = n
    ELSE \E i \in DOMAIN Exported(Canonical(m)[1]) : Exported(Canonical(m)[1])[i].name = n

\* where a handler waits inside each executor
WaitPcs(executor) ==
    IF executor = "sharedlib" THEN LibPcs
    ELSE IF executor = "wasm" THEN {"wasm_call"}
    ELSE {"component_call"}

\* C32: every tool the watcher has registered from a SharedLib, Wasm or
\* ComponentWasm manifest is located by the scheme of the manifest's type
\* followed by the canonical path of the module, and every execute that found
\* such a tool is handed to the executor of that type with that path, and
\* waits in no other executor.
C32_DiscoveryAndDispatchAgree ==
    /\ \A n \in {"n1", "n4", "n5"} :
          Entry(registry, Nil, n) # None
              => \E m \in AllModules :
                    /\ Declares(m, n)
                    /\ Entry(registry, Nil, n)[1].plugin_url
                          = SchemeOf(m.plugin_type) \o Canonical(m)[1]
    /\ \A c \in Callers :
          (req[c].op = "execute" /\ req[c].tool # None)
              => \E m \in AllModules :
                    /\ Declares(m, req[c].name)
                    /\ req[c].backend = ExecutorOf(m.plugin_type)
                    /\ req[c].path = Canonical(m)
                    /\ req[c].pc \in WaitPcs(ExecutorOf(m.plugin_type)) \cup {"respond"}

\* an execute is inside the module of a wasm manifest, and the tool of the
\* library the link leads to and that of the component are registered too
C32_Witness ==
    /\ req[1].pc = "wasm_call" /\ req[1].name = "n4"
    /\ Entry(registry, Nil, "n1") # None
    /\ Entry(registry, Nil, "n5") # None

----------------------------------------------------------------------------
(* The executive engine at the end of an /interact request *)

\* the revision counters of the base playbooks: around 0, around a carry of
\* the low limb, and around u32::MAX
BaseVersions == {<<hi, lo>> : hi \in {0, 1, LIMB - 1}, lo \in {0, LIMB - 2, LIMB - 1}}

BaseInstructions ==
    {Legacy(""), Legacy(" "), Legacy("sp"), Structured("", << >>),
     Structured("sp", << >>), Structured("sp", <<CURATED_RULE>>)}

InitRefine ==
    /\ registry = EmptyMap
    /\ redis = EmptyMap
    /\ req = [c \in Callers |-> IdleReq]
    /\ loaded_libs = {}
    /\ lib_mutex = [owner |-> None, poisoned |-> FALSE]
    /\ fs = EmptyDir
    /\ chan = 0
    /\ watcher = WatcherOff
    /\ env = DefaultEnv
    /\ children = << >>
    /\ main = "serving"
    /\ \E t \in Uuids, v \in BaseVersions, i \in BaseInstructions :
          engine = [IdleEngine EXCEPT !.pc = "acted", !.twin_id = t, !.goal = "do X",
                                      !.plan = <<"r">>, !.playbook = Playbook(v, i)]

NextRefine ==
    \/ GenerateArtifact
    \/ PushArtifact(BOOLEAN)
    \/ InteractRespond

SpecRefine == InitRefine /\ [][NextRefine]_vars

\* the value of a counter minus the value of another, for counters that are
\* at most 2^16 apart
Minus(a, b) == (a[1] - b[1]) * LIMB + (a[2] - b[2])

\* C33: the artifact generate_refinement_artifact returns holds the twin id it
\* was given and a playbook whose version is the base version plus one, or
\* u32::MAX when the base version is u32::MAX: the counter never wraps.
C33_RefinementArtifactVersioning ==
    engine.artifact # None =>
        LET new == engine.artifact[1].updated_playbook.version
            base == engine.playbook.version
        IN  /\ engine.artifact[1].twin_id = Some(engine.twin_id)
            /\ new[1] \in 0..(LIMB - 1) /\ new[2] \in 0..(LIMB - 1)
            /\ IF base = U32_MAX THEN new = U32_MAX ELSE Minus(new, base) = 1

\* an artifact was generated from a playbook at version u32::MAX
C33_Witness ==
    /\ engine.artifact # None
    /\ engine.playbook.version = U32_MAX
    /\ engine.twin_id = "t1"

----------------------------------------------------------------------------
(* The legacy WebAssembly executor and the guest's buffers *)

\* where the guest's alloc puts the parameters, and the regions its tool
\* function returns: the input region itself, its neighbours, others
InPtrs == {8, 16, 24, 32}
OutPtrs == {0, 8, 9, 16}
OutLens == {0, 1, 2, 4}

NextGuest ==
    \E c \in {1} :
        \/ ExecuteTool(c, {Nil, "t1"}, {"n4"})
        \/ WasmReturn(c, InPtrs,
                      {Trap} \cup {Returned(<<0, p, 0, l>>) : p \in OutPtrs, l \in OutLens})
        \/ Respond(c)

SpecGuest == InitDecode /\ [][NextGuest]_vars

\* C34: in every invocation the host reads the output region before it asks
\* the guest to dealloc it, reads no region after it asked the guest to dealloc
\* it, and asks the guest to dealloc each region at most once, also when the
\* output is returned in the region of the input.
C34_GuestBufferProtocol ==
    \A c \in Callers :
        LET ops == req[c].mem
        IN  \A i, j \in DOMAIN ops :
               /\ (ops[i].op = "dealloc" /\ ops[j].op = "read" /\ ops[i].ptr = ops[j].ptr)
                     => j < i
               /\ (ops[i].op = "dealloc" /\ ops[j].op = "dealloc" /\ ops[i].ptr = ops[j].ptr)
                     => i = j

----------------------------------------------------------------------------
(* Claims on the strings a native library returns *)

\* C35: the host calls the free export of a library at most once in a call,
\* only with the pointer the entry point returned in this call and only after
\* it has copied the string; never when the entry point returned NULL or the
\* library has no free export; and it does nothing else with the pointer.
C35_FfiOwnershipHandoff ==
    \A c \in Callers :
        (req[c].backend = "sharedlib" /\ req[c].ret # None) =>
            LET ops == req[c].mem
                frees == {i \in DOMAIN ops : ops[i].op = "free_cstring"}
            IN  /\ Cardinality(frees) <= 1
                /\ \A i \in DOMAIN ops : ops[i].op \in {"copy", "free_cstring"}
                /\ \A i \in frees :
                      /\ ops[i].ptr = req[c].ret[1]
                      /\ \E j \in 1..(i - 1) : ops[j] = FfiOp("copy", ops[i].ptr)
                /\ req[c].ret[1] = "NULL" => frees = {}
                /\ "free_cstring" \notin Symbols(req[c].path[1]) => frees = {}
                /\ (req[c].ret[1] # "NULL" /\ "free_cstring" \in Symbols(req[c].path[1]))
                      => frees # {}

\* the free export of library A runs on the string one call returned, while
\* a call into library B, which has no free export, was answered with its string
C35_Witness ==
    \E c, d \in Callers :
        /\ req[c].pc = "lib_free" /\ req[c].path = Some(LIB_A)
        /\ req[d].pc = "respond" /\ req[d].path = Some(LIB_B) /\ req[d].status = 200
        /\ req[d].ret = Some("cstr")

----------------------------------------------------------------------------
(* One library that loads and one that does not, executed next to the watcher *)

\* a store that holds the tool of library A and a tool located in the file /c
PoisonStore ==
    Put(EmptyMap, GLOBAL_TOOLS_KEY,
        [n \in {"n1", "lib_bad"} |->
            to_string(IF n = "n1" THEN FromLibrary(LIB_A)[1]
                      ELSE ToolSchema("lib_bad", Url(SHAREDLIB_SCHEME, LIB_BAD), "run"))])

InitPoison == InitWith(PoisonStore, [EmptyDir EXCEPT !["p1"] = Some(MANIFEST_A)], WatcherOn)

NextPoison ==
    \/ \E p \in Plugins : Touch(p)
    \/ InitialScan
    \/ \E p \in Plugins : ScanFolder(p)
    \/ RegisterToolsLock
    \/ RegisterToolsReturn({"array"})
    \/ WatcherUpsert
    \/ WatcherPersist({TRUE})
    \/ ScanDone
    \/ UnloadNotIn
    \/ Recv
    \/ Rescan
    \/ \E c \in Callers :
        \/ ExecuteTool(c, {"t1"}, {"n1", "lib_bad"})
        \/ LibLock(c)
        \/ LibReturn(c)
        \/ LibFreeReturn(c)
        \/ ConnectionClosed(c)
        \/ Respond(c)

SpecPoison == InitPoison /\ [][NextPoison]_vars

\* an execute of a tool of library A got its answer from the library
ServedByLibrary(c) == req[c].status = 200 \/ req[c].body = "returned NULL"

\* C36: a failed load of a native library is local to its call: the mutex of
\* the handle table stays usable, every later execute into the valid library
\* A is answered by the library, and the watcher's scans still run their
\* unload step instead of ending the task.
C36_FailedLoadIsLocal ==
    /\ ~lib_mutex.poisoned
    /\ watcher.pc # "dead"
    /\ \A c \in Callers :
          (req[c].pc = "respond" /\ req[c].path = Some(LIB_A)) => ServedByLibrary(c)

----------------------------------------------------------------------------
(* Claims on the processes of Binary plugins *)

\* folder p holds a Binary manifest that passes the signature check and
\* parses, and whose executable exists
BinaryPresent(p) ==
    /\ fs[p] # NoManifest
    /\ SignatureGate(env, fs[p][1])
    /\ fs[p][1].toml_ok
    /\ fs[p][1].plugin_type = "binary"
    /\ fs[p][1].binary_path # None
    /\ fs[p][1].binary_path[1] \in Files

\* C37: every scan that comes to a Binary manifest whose executable exists
\* spawns exactly one new child for that plugin and leaves the children of
\* earlier scans as they are, whether or not one of them is still running.
C37_BinaryRespawnedByEveryScan ==
    [][\A p \in Plugins :
          (ScanFolder(p) /\ BinaryPresent(p))
              => /\ Len(children') = Len(children) + 1
                 /\ children'[Len(children')].plugin = p
                 /\ children'[Len(children')].pc = "forked"
                 /\ \A i \in DOMAIN children : children'[i] = children[i]]_vars

\* a rescan has spawned a second child of plugin p1 while the child the
\* initial scan spawned is still running
C37_Witness ==
    /\ Len(children) = 2
    /\ children[1].plugin = "p1" /\ children[1].pc = "exec"
    /\ children[2].plugin = "p1" /\ children[2].pc = "forked"
    /\ ~watcher.initial
    /\ watcher.pc = "spawn_sleep"

----------------------------------------------------------------------------
(* The gateway started while Redis fails *)

\* main() on a store that holds a global and a twin tool; every call of
\* load_all_tools may be the one that fails; no watcher; clients execute
NextColdStart ==
    \/ Rehydrate(LoadFailures)
    \/ SpawnWatcher({FALSE})
    \/ Serve
    \/ \E c \in Callers :
        \/ ExecuteTool(c, Uuids, {"n1", "n2"})
        \/ ListToolsForTwin(c, Uuids)
        \/ Health(c)
        \/ Respond(c)

SpecColdStart == InitStartup /\ [][NextColdStart]_vars

\* C38: when load_all_tools fails, at the connection or at any read, main()
\* goes on with an empty registry: whatever was read before the failure is
\* dropped, and the gateway that serves knows none of the stored tools.
C38_RehydrationFailureStartsEmpty ==
    /\ registry = EmptyMap
    /\ \A c \in Callers :
          /\ (req[c].pc = "respond" /\ req[c].op = "execute") => req[c].status = 404
          /\ (req[c].pc = "respond" /\ req[c].op = "list") => req[c].listed = << >>

\* the gateway serves after a failed load: an execute of the stored global
\* tool n1 was answered 404 and the list of twin t1, whose tool n2 is
\* stored too, was answered empty
C38_Witness ==
    /\ main = "serving"
    /\ Entry(load_all_tools(redis), Nil, "n1") # None
    /\ Entry(load_all_tools(redis), "t1", "n2") # None
    /\ \E c, d \in Callers :
          /\ req[c].pc = "respond" /\ req[c].name = "n1" /\ req[c].status = 404
          /\ req[d].pc = "respond" /\ req[d].op = "list" /\ req[d].twin = "t1"
          /\ req[d].status = 200

----------------------------------------------------------------------------
(* One client registers, executes and lists at every scope *)

\* two definitions of n1 and one of n2
ScopeTools == HttpTools \cup {ToolSchema("n2", HTTP_H1, "/e")}

NextScopes ==
    \E c \in {1} :
        \/ RegisterTool(c, Uuids, ScopeTools)
        \/ UpsertPersist(c, {TRUE})
        \/ ExecuteTool(c, Uuids, {"n1", "n2"})
        \/ HttpReturn(c, {o \in HttpOutcomes : o.kind = "response" /\ o.status = 200})
        \/ ListToolsForTwin(c, Uuids)
        \/ Respond(c)

SpecScopes == Init /\ [][NextScopes]_vars

\* C39: an upsert of a tool at scope S changes the registry entry
\* (S, tool.name) and no other; when S is not the global scope, the lookup of
\* every name and the list of every other scope are what they were, so an
\* execute at another scope resolves as before; and a step that is no upsert
\* (a lookup, an execute, a list, an answer) leaves the registry as it is.
C39_ScopeNonInterference ==
    [][\A c \in Callers :
          /\ RegisterTool(c, Uuids, ScopeTools)
                => LET S == req'[c].twin
                       tool == req'[c].tool[1]
                   IN  /\ Entry(registry', S, tool.name) = Some(tool)
                       /\ \A s \in Uuids, n \in Names :
                             <<s, n>> # <<S, tool.name>>
                                 => Entry(registry', s, n) = Entry(registry, s, n)
                       /\ S # Nil
                             => \A s \in Uuids \ {S} :
                                   /\ \A n \in Names :
                                         Lookup(registry', s, n) = Lookup(registry, s, n)
                                   /\ list_tools_for_twin(registry', s)
                                         = list_tools_for_twin(registry, s)
          /\ (req'[c] # req[c] /\ ~RegisterTool(c, Uuids, ScopeTools))
                => registry' = registry]_vars

\* n1 is registered at the global scope, at t1 and at t2 under different
\* locators, an upsert at t1 is in flight and n2 is registered globally
C39_Witness ==
    /\ req[1].op = "register" /\ req[1].pc = "persist" /\ req[1].twin = "t1"
    /\ Entry(registry, Nil, "n1") # None
    /\ Entry(registry, "t2", "n1") # None
    /\ Entry(registry, "t1", "n1") # Entry(registry, "t2", "n1")
    /\ Entry(registry, Nil, "n2") # None

----------------------------------------------------------------------------
(* The watcher with and without auto_register_global *)

\* a store where twin t1 holds tools of the names the plugins declare
TwinStore ==
    persist_tool(persist_tool(EmptyMap, Some("t1"), ToolSchema("n1", HTTP_H1, "/e")),
                 Some("t1"), ToolSchema("n5", HTTP_H2, "/e"))

\* the manifests that come and go in each folder: one of every type that
\* registers tools
Registering(p) ==
    IF p = "p1" THEN {MANIFEST_A, MANIFEST_WASM} ELSE {MANIFEST_COMPONENT, MANIFEST_CFG}

InitGlobal ==
    \E g \in BOOLEAN :
        InitWith(TwinStore, [EmptyDir EXCEPT !["p1"] = Some(MANIFEST_A)],
                 [WatcherOn EXCEPT !.auto_register_global = g])

NextGlobal ==
    \/ \E p \in Plugins : AddManifest(p, Registering(p))
    \/ \E p \in Plugins : RemoveManifest(p)
    \/ InitialScan
    \/ \E p \in Plugins : ScanFolder(p)
    \/ RegisterToolsLock
    \/ RegisterToolsReturn({"array"})
    \/ WasmRegisterReturn
    \/ WatcherUpsert
    \/ WatcherPersist({TRUE})
    \/ ScanDone
    \/ UnloadNotIn
    \/ Recv
    \/ Rescan

SpecGlobal == InitGlobal /\ [][NextGlobal]_vars

\* the names the plugins declare
PluginNames == {"n1", "n3", "n4", "n5"}

\* C40: whatever the flag auto_register_global and whatever the type of the
\* manifest, a scan upserts at the global scope only: every entry of a twin,
\* in the registry and in the store, is the one the gateway started with.
C40_WatcherRegistrationsGlobal ==
    /\ \A s \in Twins, n \in PluginNames :
          Entry(registry, s, n) = Entry(load_all_tools(TwinStore), s, n)
    /\ \A s \in Twins : GetOr(redis, twin_key(s), EmptyMap) = GetOr(TwinStore, twin_key(s), EmptyMap)
    /\ DOMAIN registry \subseteq {Nil, "t1"}

\* without the flag, the scans have registered the tools of a library, a wasm
\* module, a component and a config-only manifest at the global scope
C40_Witness ==
    /\ ~watcher.auto_register_global
    /\ \A n \in PluginNames : Entry(registry, Nil, n) # None
    /\ \A n \in PluginNames : hget(redis, GLOBAL_TOOLS_KEY, n) # None

====
